---------------------------- MODULE Spec2Model ----------------------------
(***************************************************************************)
(* A model of the extraction and normalisation core of streamlit_app.py:   *)
(* JobDataAnalyzer (clean_data and the per-field locators) and load_data.  *)
(*                                                                         *)
(* Text is a sequence of one-character strings.  The regular expressions   *)
(* of the source are modelled with Python's backtracking semantics: every  *)
(* sub-pattern yields the sequence of its possible matches in priority     *)
(* order (greedy first), a pattern's match at a position is the first      *)
(* element of the composed sequence, and re.search takes the leftmost      *)
(* position that has a match.                                              *)
(*                                                                         *)
(* Floats are kept in halves (fixed point, one binary digit), which is     *)
(* exact for integers and for the midpoint of two integers; NaN is a       *)
(* separate value.                                                         *)
(***************************************************************************)
EXTENDS Integers, Sequences, FiniteSets, TLC

VARIABLES csv, pc, df, arg, ret, page, page_df, filtered_df, shown

\* the state of main after load_data: the page selected, its sub-table, the
\* table create_interactive_filters returned and what was shown to the user
main_vars == <<page, page_df, filtered_df, shown>>

vars == <<csv, pc, df, arg, ret, main_vars>>

----------------------------------------------------------------------------
(* Characters *)

ToUpperMap ==
  ("a" :> "A") @@ ("b" :> "B") @@ ("c" :> "C") @@ ("d" :> "D") @@ ("e" :> "E") @@
  ("f" :> "F") @@ ("g" :> "G") @@ ("h" :> "H") @@ ("i" :> "I") @@ ("j" :> "J") @@
  ("k" :> "K") @@ ("l" :> "L") @@ ("m" :> "M") @@ ("n" :> "N") @@ ("o" :> "O") @@
  ("p" :> "P") @@ ("q" :> "Q") @@ ("r" :> "R") @@ ("s" :> "S") @@ ("t" :> "T") @@
  ("u" :> "U") @@ ("v" :> "V") @@ ("w" :> "W") @@ ("x" :> "X") @@ ("y" :> "Y") @@
  ("z" :> "Z")

ToLowerMap ==
  ("A" :> "a") @@ ("B" :> "b") @@ ("C" :> "c") @@ ("D" :> "d") @@ ("E" :> "e") @@
  ("F" :> "f") @@ ("G" :> "g") @@ ("H" :> "h") @@ ("I" :> "i") @@ ("J" :> "j") @@
  ("K" :> "k") @@ ("L" :> "l") @@ ("M" :> "m") @@ ("N" :> "n") @@ ("O" :> "o") @@
  ("P" :> "p") @@ ("Q" :> "q") @@ ("R" :> "r") @@ ("S" :> "s") @@ ("T" :> "t") @@
  ("U" :> "u") @@ ("V" :> "v") @@ ("W" :> "w") @@ ("X" :> "x") @@ ("Y" :> "y") @@
  ("Z" :> "z")

DigitValue ==
  ("0" :> 0) @@ ("1" :> 1) @@ ("2" :> 2) @@ ("3" :> 3) @@ ("4" :> 4) @@
  ("5" :> 5) @@ ("6" :> 6) @@ ("7" :> 7) @@ ("8" :> 8) @@ ("9" :> 9)

\* \d
IsDigit(c) == c \in DOMAIN DigitValue

\* \s, and the characters str.strip() removes
IsSpace(c) == c \in {" ", "\t", "\n", "\r", "\f"}

\* [A-Za-z]
IsAlpha(c) == c \in DOMAIN ToUpperMap \/ c \in DOMAIN ToLowerMap

ToUpper(c) == IF c \in DOMAIN ToUpperMap THEN ToUpperMap[c] ELSE c

ToLower(c) == IF c \in DOMAIN ToLowerMap THEN ToLowerMap[c] ELSE c

\* str.upper()
upper(s) == [k \in 1..Len(s) |-> ToUpper(s[k])]

\* str.lower()
lower(s) == [k \in 1..Len(s) |-> ToLower(s[k])]

\* character equality, under re.IGNORECASE when ic
SameChar(a, b, ic) == IF ic THEN ToUpper(a) = ToUpper(b) ELSE a = b

\* the text lit occurs in s at index i
OccursAt(s, lit, i, ic) ==
  /\ i + Len(lit) - 1 <= Len(s)
  /\ \A k \in 1..Len(lit) : SameChar(s[i + k - 1], lit[k], ic)

\* Python's `lit in s`
Contains(s, lit) == \E i \in 1..(Len(s) - Len(lit) + 1) : OccursAt(s, lit, i, FALSE)

\* str.replace(c, '') and re.sub of a character class by '': drop the
\* characters of s that are in the set cs
RemoveChars(s, cs) == SelectSeq(s, LAMBDA c : c \notin cs)

\* str.strip()
strip(s) ==
  IF \A k \in 1..Len(s) : IsSpace(s[k]) THEN <<>>
  ELSE LET first == CHOOSE i \in 1..Len(s) :
                       /\ ~IsSpace(s[i])
                       /\ \A k \in 1..(i - 1) : IsSpace(s[k])
           last  == CHOOSE j \in 1..Len(s) :
                       /\ ~IsSpace(s[j])
                       /\ \A k \in (j + 1)..Len(s) : IsSpace(s[k])
       IN  SubSeq(s, first, last)

\* re.sub(r'\s+', ' ', s): every maximal run of whitespace becomes one space
\* (the last character of a run becomes the space, the others go)
CollapseSpaces(s) ==
  SelectSeq([k \in 1..Len(s) |->
               IF ~IsSpace(s[k]) THEN s[k]
               ELSE IF k < Len(s) /\ IsSpace(s[k + 1]) THEN "" ELSE " "],
            LAMBDA c : c # "")

\* int() of a text of decimal digits
RECURSIVE ParseInt(_)
ParseInt(s) ==
  IF s = <<>> THEN 0
  ELSE 10 * ParseInt(SubSeq(s, 1, Len(s) - 1)) + DigitValue[s[Len(s)]]

----------------------------------------------------------------------------
(* Regular-expression matching.  A match state is [p, g]: p is the index   *)
(* of the next character to read and g the texts captured so far.          *)

StartAt(i) == [p |-> i, g |-> <<>>]

\* the concatenation of the sequences of ss
RECURSIVE Flatten(_)
Flatten(ss) == IF ss = <<>> THEN <<>> ELSE Head(ss) \o Flatten(Tail(ss))

\* the matches of F from each state of ms, in priority order
FlatMap(F(_), ms) == Flatten(<<>> \o [k \in 1..Len(ms) |-> F(ms[k])])

\* a literal
Lit(s, lit, ic, m) ==
  IF OccursAt(s, lit, m.p, ic) THEN <<[m EXCEPT !.p = m.p + Len(lit)]>> ELSE <<>>

\* the least number of a non-empty set of numbers
Least(S) == CHOOSE k \in S : \A j \in S : k <= j

\* the length of the run of characters satisfying Cls that starts at i
RunLength(s, Cls(_), i) ==
  Least({k \in i..(Len(s) + 1) : k = Len(s) + 1 \/ ~Cls(s[k])}) - i

\* the matches of a greedy repetition that can take at most top characters
\* and must take at least lo: longest first
Shorter(m, lo, top) ==
  IF top < lo THEN <<>>
  ELSE [k \in 1..(top - lo + 1) |-> [m EXCEPT !.p = m.p + top - k + 1]]

Min(a, b) == IF a < b THEN a ELSE b

\* a greedy repetition of a character class, at least lo and at most hi
\* times
Repeat(s, Cls(_), lo, hi, m) == Shorter(m, lo, Min(RunLength(s, Cls, m.p), hi))

\* \s* (lo = 0) and \s+ (lo = 1)
Spaces(s, lo, m) == Repeat(s, IsSpace, lo, Len(s), m)

\* ,\d{3}
CommaGroupAt(s, i) ==
  /\ i + 3 <= Len(s)
  /\ s[i] = ","
  /\ IsDigit(s[i + 1]) /\ IsDigit(s[i + 2]) /\ IsDigit(s[i + 3])

\* (?:,\d{3})* from index i: the end positions, most groups first
CommaGroups(s, i) ==
  LET f[k \in i..(Len(s) + 1)] ==
        IF CommaGroupAt(s, k) THEN f[k + 4] \o <<k>> ELSE <<k>>
  IN  f[i]

\* the match state m moved to each of the positions ps
MovedTo(m, ps) == [k \in 1..Len(ps) |-> [m EXCEPT !.p = ps[k]]]

\* \d{1,2}(?:,\d{3})*
Amount(s, m) ==
  FlatMap(LAMBDA d : MovedTo(d, CommaGroups(s, d.p)), Repeat(s, IsDigit, 1, 2, m))

\* ( ... ): the text between m and each match of rs is appended to the
\* captures
Captured(s, m, rs) ==
  [k \in 1..Len(rs) |->
     [p |-> rs[k].p, g |-> Append(m.g, SubSeq(s, m.p, rs[k].p - 1))]]

Capture(s, P(_), m) == Captured(s, m, P(m))

NoMatch == [found |-> FALSE, g |-> <<>>]

\* all[i] being the matches that start at index i: the first match at the
\* leftmost index that has one
FirstFound(all) ==
  LET starts == {i \in 1..Len(all) : all[i] # <<>>}
  IN  IF starts = {} THEN NoMatch
      ELSE [found |-> TRUE, g |-> all[Least(starts)][1].g]

\* re.search
Search(s, M(_)) == FirstFound(<<>> \o [i \in 1..(Len(s) + 1) |-> M(StartAt(i))])

----------------------------------------------------------------------------
(* Texts of the source *)

NotSpecified == <<"N", "o", "t", " ", "s", "p", "e", "c", "i", "f", "i", "e", "d">>

Negotiable == <<"N", "e", "g", "o", "t", "i", "a", "b", "l", "e">>

NotDisclosed == <<"N", "o", "t", " ", "d", "i", "s", "c", "l", "o", "s", "e", "d">>

Permanent == <<"P", "e", "r", "m", "a", "n", "e", "n", "t">>

Contract == <<"C", "o", "n", "t", "r", "a", "c", "t">>

Temporary == <<"T", "e", "m", "p", "o", "r", "a", "r", "y">>

MUR == <<"M", "U", "R">>

Rs == <<"R", "s">>

\* a missing (null) cell of the input table: pd.isna(x)
NA == <<"<NA>">>

isna(x) == x = NA

----------------------------------------------------------------------------
(* JobDataAnalyzer.extract_salary_from_description *)

\* \s*-\s*\d{1,2}(?:,\d{3})*
RangeTail(s, m) ==
  FlatMap(LAMBDA c : Amount(s, c),
    FlatMap(LAMBDA b : Spaces(s, 0, b),
      FlatMap(LAMBDA a : Lit(s, <<"-">>, FALSE, a), Spaces(s, 0, m))))

\* \d{1,2}(?:,\d{3})*(?:\s*-\s*\d{1,2}(?:,\d{3})*)?
AmountOrRange(s, m) ==
  FlatMap(LAMBDA a : RangeTail(s, a) \o <<a>>, Amount(s, m))

\* Negotiable|Not disclosed|<amount or range>
SalaryAlternatives(s, m) ==
  Lit(s, Negotiable, FALSE, m) \o Lit(s, NotDisclosed, FALSE, m) \o AmountOrRange(s, m)

\* Permanent|Contract|Temporary
EmploymentAlternatives(s, m) ==
  Lit(s, Permanent, FALSE, m) \o Lit(s, Contract, FALSE, m) \o Lit(s, Temporary, FALSE, m)

\* [A-Za-z\s]
IsAlphaOrSpace(c) == IsAlpha(c) \/ IsSpace(c)

\* location_salary_pattern, from one start position
location_salary_pattern(s, m) ==
  FlatMap(LAMBDA e : Capture(s, LAMBDA x : EmploymentAlternatives(s, x), e),
    FlatMap(LAMBDA d : Spaces(s, 1, d),
      FlatMap(LAMBDA c : Capture(s, LAMBDA x : SalaryAlternatives(s, x), c),
        FlatMap(LAMBDA b : Spaces(s, 1, b),
          Capture(s, LAMBDA x : Repeat(s, IsAlphaOrSpace, 1, Len(s), x), m)))))

\* a floor of two digits in place of four
SalaryFloorLowered == 5 + 5

\* the floor on a single currency-anchored amount
SalaryFloor == 1000

\* salary_patterns, in list order: the currency token, whether it comes
\* before the amounts, and whether the pattern has two amounts
salary_patterns ==
  << [cur |-> MUR, before |-> TRUE,  range |-> TRUE],
     [cur |-> MUR, before |-> FALSE, range |-> TRUE],
     [cur |-> Rs,  before |-> TRUE,  range |-> TRUE],
     [cur |-> Rs,  before |-> FALSE, range |-> TRUE],
     [cur |-> MUR, before |-> TRUE,  range |-> FALSE],
     [cur |-> Rs,  before |-> TRUE,  range |-> FALSE],
     [cur |-> MUR, before |-> FALSE, range |-> FALSE],
     [cur |-> Rs,  before |-> FALSE, range |-> FALSE] >>

\* (amount)  or  (amount)\s*-\s*(amount)
CapturedAmounts(s, pat, m) ==
  IF pat.range
  THEN FlatMap(LAMBDA d : Capture(s, LAMBDA x : Amount(s, x), d),
         FlatMap(LAMBDA c : Spaces(s, 0, c),
           FlatMap(LAMBDA b : Lit(s, <<"-">>, FALSE, b),
             FlatMap(LAMBDA a : Spaces(s, 0, a),
               Capture(s, LAMBDA x : Amount(s, x), m)))))
  ELSE Capture(s, LAMBDA x : Amount(s, x), m)

\* one pattern of salary_patterns, from one start position (re.IGNORECASE)
CurrencyPattern(s, pat, m) ==
  IF pat.before
  THEN FlatMap(LAMBDA b : CapturedAmounts(s, pat, b),
         FlatMap(LAMBDA a : Spaces(s, 0, a), Lit(s, pat.cur, TRUE, m)))
  ELSE FlatMap(LAMBDA b : Lit(s, pat.cur, TRUE, b),
         FlatMap(LAMBDA a : Spaces(s, 0, a), CapturedAmounts(s, pat, m)))

\* the loop over salary_patterns from pattern k on: the returned text, or
\* <<>> when the loop ends without returning
RECURSIVE CurrencyLoop(_, _)

\* CurrencyLoopBody with the floor applied to both amounts of a range
CurrencyLoopBodyFloorOnRanges(desc, k, match) ==
  IF match.found
  THEN IF Len(match.g) >= 2
       THEN IF /\ ParseInt(RemoveChars(match.g[1], {","})) >= SalaryFloor
               /\ ParseInt(RemoveChars(match.g[2], {","})) >= SalaryFloor
            THEN match.g[1] \o <<" ", "-", " ">> \o match.g[2]
            ELSE CurrencyLoop(desc, k + 1)
       ELSE IF ParseInt(RemoveChars(match.g[1], {","})) >= SalaryFloor
            THEN match.g[1]
            ELSE CurrencyLoop(desc, k + 1)
  ELSE CurrencyLoop(desc, k + 1)

\* CurrencyLoopBody looking, for a single amount below the floor, at the
\* later matches of the same pattern
CurrencyLoopBodyLaterMatches(desc, k, match) ==
  IF match.found
  THEN IF Len(match.g) >= 2
       THEN match.g[1] \o <<" ", "-", " ">> \o match.g[2]
       ELSE LET rest(j) == SubSeq(desc, j, Len(desc))
                later(j) == Search(rest(j), LAMBDA m : CurrencyPattern(rest(j), salary_patterns[k], m))
                passing == { j \in 1..Len(desc) :
                               /\ later(j).found
                               /\ ParseInt(RemoveChars(later(j).g[1], {","})) >= SalaryFloor }
            IN  IF passing # {} THEN later(Least(passing)).g[1]
                ELSE CurrencyLoop(desc, k + 1)
  ELSE CurrencyLoop(desc, k + 1)

\* the body of the loop for one pattern, given the result of its search
CurrencyLoopBody(desc, k, match) ==
  IF match.found
  THEN IF Len(match.g) >= 2
       THEN match.g[1] \o <<" ", "-", " ">> \o match.g[2]
       ELSE IF ParseInt(RemoveChars(match.g[1], {","})) >= SalaryFloor
            THEN match.g[1]
            ELSE CurrencyLoop(desc, k + 1)
  ELSE CurrencyLoop(desc, k + 1)

CurrencyLoop(desc, k) ==
  IF k > Len(salary_patterns) THEN <<>>
  ELSE CurrencyLoopBody(desc, k,
         Search(desc, LAMBDA m : CurrencyPattern(desc, salary_patterns[k], m)))

\* SalaryKeyword without the search for "Negotiable"
SalaryKeywordWithoutNegotiable(desc) ==
  IF Contains(desc, NotDisclosed) THEN NotDisclosed ELSE NotSpecified

\* patterns 3 and 4 and the default
SalaryKeyword(desc) ==
  IF Contains(desc, Negotiable) THEN Negotiable
  ELSE IF Contains(desc, NotDisclosed) THEN NotDisclosed
  ELSE NotSpecified

\* the steps after the composite pattern, given what the currency loop
\* returned
AfterCurrencyLoop(desc, returned) ==
  IF returned # <<>> THEN returned ELSE SalaryKeyword(desc)

\* SalarySteps with the currency patterns tried before the composite one
SalaryStepsCurrencyFirst(desc, match) ==
  IF CurrencyLoop(desc, 1) # <<>> THEN CurrencyLoop(desc, 1)
  ELSE IF match.found THEN strip(match.g[2])
  ELSE SalaryKeyword(desc)

\* SalarySteps with the floor of the currency patterns applied to a single
\* amount of the composite pattern too
SalaryStepsFloorOnComposite(desc, match) ==
  IF /\ match.found
     /\ \/ \E i \in 1..Len(match.g[2]) : ~(IsDigit(match.g[2][i]) \/ match.g[2][i] = ",")
        \/ ParseInt(RemoveChars(match.g[2], {","})) >= SalaryFloor
  THEN strip(match.g[2])
  ELSE AfterCurrencyLoop(desc, CurrencyLoop(desc, 1))

\* the steps of the locator, given the result of the composite search
SalarySteps(desc, match) ==
  IF match.found THEN strip(match.g[2])
  ELSE AfterCurrencyLoop(desc, CurrencyLoop(desc, 1))

extract_salary_from_description(description) ==
  IF isna(description) THEN NotSpecified
  ELSE SalarySteps(description,
         Search(description, LAMBDA m : location_salary_pattern(description, m)))

----------------------------------------------------------------------------
(* JobDataAnalyzer.clean_salary, extract_salary_min, extract_salary_max *)

NaN == [nan |-> TRUE, halves |-> 0]

\* float(n) for an integer n
Float(n) == [nan |-> FALSE, halves |-> 2 * n]

\* the characters of the class [MURRs]
CurrencyLetters == {"M", "U", "R", "s"}

\* clean_salary that keeps 'Not disclosed' apart from 'Negotiable'
clean_salary_keeping_not_disclosed(salary_text) ==
  IF isna(salary_text) \/ salary_text = NotSpecified THEN NotSpecified
  ELSE IF Contains(strip(salary_text), Negotiable) THEN Negotiable
  ELSE IF Contains(strip(salary_text), NotDisclosed) THEN NotDisclosed
  ELSE strip(CollapseSpaces(RemoveChars(RemoveChars(strip(salary_text), CurrencyLetters), {","})))

\* clean_salary leaving the commas of the amounts in place
clean_salary_keeping_commas(salary_text) ==
  IF isna(salary_text) \/ salary_text = NotSpecified THEN NotSpecified
  ELSE IF Contains(strip(salary_text), Negotiable) \/ Contains(strip(salary_text), NotDisclosed) THEN Negotiable
  ELSE strip(CollapseSpaces(RemoveChars(strip(salary_text), CurrencyLetters)))

clean_salary(salary_text) ==
  IF isna(salary_text) \/ salary_text = NotSpecified THEN NotSpecified
  ELSE LET stripped == strip(salary_text)
       IN  IF Contains(stripped, Negotiable) \/ Contains(stripped, NotDisclosed)
           THEN Negotiable
           ELSE strip(CollapseSpaces(RemoveChars(RemoveChars(stripped, CurrencyLetters), {","})))

\* range_pattern of the two bound parsers: which is the number of the
\* captured amount (1 for the minimum, 2 for the maximum)
range_pattern(s, which, m) ==
  LET first(x)  == IF which = 1 THEN Capture(s, LAMBDA y : Amount(s, y), x) ELSE Amount(s, x)
      second(x) == IF which = 2 THEN Capture(s, LAMBDA y : Amount(s, y), x) ELSE Amount(s, x)
  IN  FlatMap(LAMBDA d : second(d),
        FlatMap(LAMBDA c : Spaces(s, 0, c),
          FlatMap(LAMBDA b : Lit(s, <<"-">>, FALSE, b),
            FlatMap(LAMBDA a : Spaces(s, 0, a), first(m)))))

\* single_pattern
single_pattern(s, m) == Capture(s, LAMBDA y : Amount(s, y), m)

\* float(match.group(1).replace(',', '')) if there is a match, else the
\* value of the code that follows
GroupAsFloat(match, otherwise) ==
  IF match.found THEN Float(ParseInt(RemoveChars(match.g[1], {","}))) ELSE otherwise

\* the common body of extract_salary_min and extract_salary_max
SalaryBound(salary_text, which) ==
  IF isna(salary_text) \/ Contains(salary_text, NotSpecified) \/ Contains(salary_text, Negotiable)
  THEN NaN
  ELSE GroupAsFloat(Search(salary_text, LAMBDA m : range_pattern(salary_text, which, m)),
         GroupAsFloat(Search(salary_text, LAMBDA m : single_pattern(salary_text, m)), NaN))

extract_salary_min(salary_text) == SalaryBound(salary_text, 1)

\* extract_salary_max without the single_pattern step
extract_salary_max_range_only(salary_text) ==
  IF isna(salary_text) \/ Contains(salary_text, NotSpecified) \/ Contains(salary_text, Negotiable)
  THEN NaN
  ELSE GroupAsFloat(Search(salary_text, LAMBDA m : range_pattern(salary_text, 2, m)), NaN)

extract_salary_max(salary_text) == SalaryBound(salary_text, 2)

\* salary_average_of with the floor division // in place of /
salary_average_floor(lo, hi) ==
  IF lo.nan \/ hi.nan THEN NaN
  ELSE [nan |-> FALSE, halves |-> 2 * ((lo.halves + hi.halves) \div 4)]

\* the column arithmetic (salary_min + salary_max) / 2: NaN if either is NaN
salary_average_of(lo, hi) ==
  IF lo.nan \/ hi.nan THEN NaN
  ELSE [nan |-> FALSE, halves |-> (lo.halves + hi.halves) \div 2]

----------------------------------------------------------------------------
(* JobDataAnalyzer.extract_location, extract_job_type *)

locations ==
  << <<"P", "o", "r", "t", " ", "L", "o", "u", "i", "s">>,
     <<"P", "l", "a", "i", "n", "e", " ", "W", "i", "l", "h", "e", "m", "s">>,
     <<"P", "a", "m", "p", "l", "e", "m", "o", "u", "s", "s", "e", "s">>,
     <<"B", "l", "a", "c", "k", " ", "R", "i", "v", "e", "r">>,
     <<"M", "o", "k", "a">>,
     <<"F", "l", "a", "c", "q">>,
     <<"R", "i", "v", "i", "e", "r", "e", " ", "d", "u", " ", "R", "e", "m", "p", "a", "r", "t">>,
     <<"G", "r", "a", "n", "d", " ", "P", "o", "r", "t">>,
     <<"S", "a", "v", "a", "n", "n", "e">>,
     <<"M", "a", "u", "r", "i", "t", "i", "u", "s">>,
     <<"R", "o", "d", "r", "i", "g", "u", "e", "s">> >>

\* the loop over locations from entry k on
RECURSIVE LocationLoop(_, _)
LocationLoop(desc_str, k) ==
  IF k > Len(locations) THEN NotSpecified
  ELSE IF Contains(desc_str, upper(locations[k])) THEN locations[k]
  ELSE LocationLoop(desc_str, k + 1)

\* extract_location returning the name met first in the text
extract_location_first_in_text(description) ==
  IF isna(description) THEN NotSpecified
  ELSE LET desc_str == upper(description)
           found == { k \in 1..Len(locations) : Contains(desc_str, upper(locations[k])) }
           at(k) == Least({ i \in 1..Len(desc_str) : OccursAt(desc_str, upper(locations[k]), i, FALSE) })
       IN  IF found = {} THEN NotSpecified
           ELSE locations[CHOOSE k \in found : \A j \in found : at(k) <= at(j)]

extract_location(description) ==
  IF isna(description) THEN NotSpecified
  ELSE LocationLoop(upper(description), 1)

ContractTemporary == <<"C", "o", "n", "t", "r", "a", "c", "t", "/", "T", "e", "m", "p", "o", "r", "a", "r", "y">>

Trainee == <<"T", "r", "a", "i", "n", "e", "e">>

PartTime == <<"P", "a", "r", "t", "-", "t", "i", "m", "e">>

\* extract_job_type testing the families from the last to the first
extract_job_type_last_family_first(description) ==
  IF isna(description) THEN NotSpecified
  ELSE LET desc_str == upper(description)
       IN  IF Contains(desc_str, <<"P", "A", "R", "T", "-", "T", "I", "M", "E">>)
           THEN PartTime
           ELSE IF Contains(desc_str, <<"T", "R", "A", "I", "N", "E", "E">>) \/ Contains(desc_str, <<"I", "N", "T", "E", "R", "N", "S", "H", "I", "P">>)
           THEN Trainee
           ELSE IF Contains(desc_str, <<"C", "O", "N", "T", "R", "A", "C", "T">>) \/ Contains(desc_str, <<"T", "E", "M", "P", "O", "R", "A", "R", "Y">>)
           THEN ContractTemporary
           ELSE IF Contains(desc_str, <<"P", "E", "R", "M", "A", "N", "E", "N", "T">>) \/ Contains(desc_str, <<"C", "D", "I">>)
           THEN Permanent
           ELSE NotSpecified

extract_job_type(description) ==
  IF isna(description) THEN NotSpecified
  ELSE LET desc_str == upper(description)
       IN  IF Contains(desc_str, <<"P", "E", "R", "M", "A", "N", "E", "N", "T">>) \/ Contains(desc_str, <<"C", "D", "I">>)
           THEN Permanent
           ELSE IF Contains(desc_str, <<"C", "O", "N", "T", "R", "A", "C", "T">>) \/ Contains(desc_str, <<"T", "E", "M", "P", "O", "R", "A", "R", "Y">>)
           THEN ContractTemporary
           ELSE IF Contains(desc_str, <<"T", "R", "A", "I", "N", "E", "E">>) \/ Contains(desc_str, <<"I", "N", "T", "E", "R", "N", "S", "H", "I", "P">>)
           THEN Trainee
           ELSE IF Contains(desc_str, <<"P", "A", "R", "T", "-", "T", "I", "M", "E">>)
           THEN PartTime
           ELSE NotSpecified

----------------------------------------------------------------------------
(* JobDataAnalyzer.extract_experience *)

EntryLevel == <<"E", "n", "t", "r", "y", " ", "L", "e", "v", "e", "l", " ", "(", "0", "-", "2", " ", "y", "e", "a", "r", "s", ")">>

MidLevel == <<"M", "i", "d", " ", "L", "e", "v", "e", "l", " ", "(", "3", "-", "5", " ", "y", "e", "a", "r", "s", ")">>

SeniorLevel == <<"S", "e", "n", "i", "o", "r", " ", "L", "e", "v", "e", "l", " ", "(", "6", "-", "1", "0", " ", "y", "e", "a", "r", "s", ")">>

ExecutiveLevel == <<"E", "x", "e", "c", "u", "t", "i", "v", "e", " ", "L", "e", "v", "e", "l", " ", "(", "1", "0", "+", " ", "y", "e", "a", "r", "s", ")">>

\* the prefix and the unit word of each pattern of exp_patterns, in list
\* order; plus is whether the pattern has \+? after the number
\* exp_patterns with the French pattern tried first
exp_patterns_ans_first ==
  << [prefix |-> << >>, plus |-> FALSE, unit |-> <<"a", "n">>],
     [prefix |-> << >>, plus |-> TRUE, unit |-> <<"y", "e", "a", "r">>],
     [prefix |-> << <<"m", "i", "n", "i", "m", "u", "m">> >>, plus |-> FALSE, unit |-> <<"y", "e", "a", "r">>],
     [prefix |-> << <<"a", "t">>, <<"l", "e", "a", "s", "t">> >>, plus |-> FALSE, unit |-> <<"y", "e", "a", "r">>] >>

\* exp_patterns with the prefixed patterns tried first
exp_patterns_prefixed_first ==
  << [prefix |-> << <<"m", "i", "n", "i", "m", "u", "m">> >>, plus |-> FALSE, unit |-> <<"y", "e", "a", "r">>],
     [prefix |-> << <<"a", "t">>, <<"l", "e", "a", "s", "t">> >>, plus |-> FALSE, unit |-> <<"y", "e", "a", "r">>],
     [prefix |-> << >>, plus |-> TRUE, unit |-> <<"y", "e", "a", "r">>],
     [prefix |-> << >>, plus |-> FALSE, unit |-> <<"a", "n">>] >>

exp_patterns ==
  << [prefix |-> << >>, plus |-> TRUE, unit |-> <<"y", "e", "a", "r">>],
     [prefix |-> << >>, plus |-> FALSE, unit |-> <<"a", "n">>],
     [prefix |-> << <<"m", "i", "n", "i", "m", "u", "m">> >>, plus |-> FALSE, unit |-> <<"y", "e", "a", "r">>],
     [prefix |-> << <<"a", "t">>, <<"l", "e", "a", "s", "t">> >>, plus |-> FALSE, unit |-> <<"y", "e", "a", "r">>] >>

\* the prefix words of a pattern from word k on, each followed by \s+
RECURSIVE PrefixWords(_, _, _, _)
PrefixWords(s, words, k, m) ==
  IF k > Len(words) THEN <<m>>
  ELSE FlatMap(LAMBDA b : PrefixWords(s, words, k + 1, b),
         FlatMap(LAMBDA a : Spaces(s, 1, a), Lit(s, words[k], TRUE, m)))

\* one pattern of exp_patterns, from one start position (re.IGNORECASE):
\* <prefix>(\d+)\+?\s*<unit>s?
ExperiencePattern(s, pat, m) ==
  LET optional(lit, x) == Lit(s, lit, TRUE, x) \o <<x>>
  IN  FlatMap(LAMBDA e : optional(<<"s">>, e),
        FlatMap(LAMBDA d : Lit(s, pat.unit, TRUE, d),
          FlatMap(LAMBDA c : Spaces(s, 0, c),
            FlatMap(LAMBDA b : IF pat.plus THEN optional(<<"+">>, b) ELSE <<b>>,
              FlatMap(LAMBDA a : Capture(s, LAMBDA x : Repeat(s, IsDigit, 1, Len(s), x), a),
                PrefixWords(s, pat.prefix, 1, m))))))

\* ExperienceBand with open thresholds
ExperienceBandOpen(years) ==
  IF years < 2 THEN EntryLevel
  ELSE IF years < 5 THEN MidLevel
  ELSE IF years < 10 THEN SeniorLevel
  ELSE ExecutiveLevel

\* the band of a number of years
ExperienceBand(years) ==
  IF years <= 2 THEN EntryLevel
  ELSE IF years <= 5 THEN MidLevel
  ELSE IF years <= 10 THEN SeniorLevel
  ELSE ExecutiveLevel

\* the loop over exp_patterns from pattern k on
RECURSIVE ExperienceLoop(_, _)

\* the body of the loop for one pattern, given the result of its search
ExperienceLoopBody(desc_str, k, match) ==
  IF match.found THEN ExperienceBand(ParseInt(match.g[1]))
  ELSE ExperienceLoop(desc_str, k + 1)

ExperienceLoop(desc_str, k) ==
  IF k > Len(exp_patterns) THEN NotSpecified
  ELSE ExperienceLoopBody(desc_str, k,
         Search(desc_str, LAMBDA m : ExperiencePattern(desc_str, exp_patterns[k], m)))

\* extract_experience with the lowest band for a missing description
extract_experience_entry_default(description) ==
  IF isna(description) THEN EntryLevel
  ELSE ExperienceLoop(description, 1)

extract_experience(description) ==
  IF isna(description) THEN NotSpecified
  ELSE ExperienceLoop(description, 1)

----------------------------------------------------------------------------
(* JobDataAnalyzer.extract_skills *)

skills_list ==
  << <<"e", "x", "c", "e", "l">>,
     <<"w", "o", "r", "d">>,
     <<"p", "o", "w", "e", "r", "p", "o", "i", "n", "t">>,
     <<"m", "i", "c", "r", "o", "s", "o", "f", "t", " ", "o", "f", "f", "i", "c", "e">>,
     <<"c", "o", "m", "m", "u", "n", "i", "c", "a", "t", "i", "o", "n">>,
     <<"t", "e", "a", "m", "w", "o", "r", "k">>,
     <<"l", "e", "a", "d", "e", "r", "s", "h", "i", "p">>,
     <<"p", "r", "o", "j", "e", "c", "t", " ", "m", "a", "n", "a", "g", "e", "m", "e", "n", "t">>,
     <<"c", "u", "s", "t", "o", "m", "e", "r", " ", "s", "e", "r", "v", "i", "c", "e">>,
     <<"s", "a", "l", "e", "s">>,
     <<"m", "a", "r", "k", "e", "t", "i", "n", "g">>,
     <<"a", "c", "c", "o", "u", "n", "t", "i", "n", "g">>,
     <<"f", "i", "n", "a", "n", "c", "e">>,
     <<"h", "r">>,
     <<"r", "e", "c", "r", "u", "i", "t", "m", "e", "n", "t">>,
     <<"f", "r", "e", "n", "c", "h">>,
     <<"e", "n", "g", "l", "i", "s", "h">>,
     <<"b", "i", "l", "i", "n", "g", "u", "a", "l">>,
     <<"c", "o", "m", "p", "u", "t", "e", "r">>,
     <<"s", "o", "f", "t", "w", "a", "r", "e">>,
     <<"i", "t">>,
     <<"n", "e", "t", "w", "o", "r", "k", "i", "n", "g">>,
     <<"p", "r", "o", "g", "r", "a", "m", "m", "i", "n", "g">>,
     <<"d", "a", "t", "a", "b", "a", "s", "e">>,
     <<"a", "n", "a", "l", "y", "s", "i", "s">>,
     <<"p", "r", "o", "b", "l", "e", "m", " ", "s", "o", "l", "v", "i", "n", "g">>,
     <<"t", "i", "m", "e", " ", "m", "a", "n", "a", "g", "e", "m", "e", "n", "t">>,
     <<"o", "r", "g", "a", "n", "i", "z", "a", "t", "i", "o", "n">>,
     <<"p", "l", "a", "n", "n", "i", "n", "g">>,
     <<"r", "e", "s", "e", "a", "r", "c", "h">>,
     <<"w", "r", "i", "t", "i", "n", "g">> >>

\* str.title(): a letter is upper case when no letter precedes it, lower
\* case otherwise
title(s) ==
  [k \in 1..Len(s) |->
     IF k = 1 \/ ~IsAlpha(s[k - 1]) THEN ToUpper(s[k]) ELSE ToLower(s[k])]

\* the loop over skills_list from entry k on: the list found_skills
RECURSIVE SkillsLoop(_, _)
SkillsLoop(desc_str, k) ==
  IF k > Len(skills_list) THEN <<>>
  ELSE IF Contains(desc_str, skills_list[k])
       THEN <<title(skills_list[k])>> \o SkillsLoop(desc_str, k + 1)
       ELSE SkillsLoop(desc_str, k + 1)

\* extract_skills without the lower-casing of the description
extract_skills_case_sensitive(description) ==
  IF isna(description) THEN <<>>
  ELSE SkillsLoop(description, 1)

extract_skills(description) ==
  IF isna(description) THEN <<>>
  ELSE SkillsLoop(lower(description), 1)

----------------------------------------------------------------------------
(* JobDataAnalyzer.extract_posted_date *)

\* date_pattern, from one start position: Added\s+(\d{2}/\d{2}/\d{4})
date_pattern(s, m) ==
  LET digits(n, x) == IF RunLength(s, IsDigit, x.p) >= n
                      THEN <<[x EXCEPT !.p = x.p + n]>> ELSE <<>>
      date(x) == FlatMap(LAMBDA e : digits(4, e),
                   FlatMap(LAMBDA d : Lit(s, <<"/">>, FALSE, d),
                     FlatMap(LAMBDA c : digits(2, c),
                       FlatMap(LAMBDA b : Lit(s, <<"/">>, FALSE, b), digits(2, x)))))
  IN  FlatMap(LAMBDA b : Capture(s, date, b),
        FlatMap(LAMBDA a : Spaces(s, 1, a), Lit(s, <<"A", "d", "d", "e", "d">>, FALSE, m)))

IsLeapYear(y) == (y % 4 = 0 /\ y % 100 # 0) \/ y % 400 = 0

DaysInMonth(y, mo) ==
  IF mo = 2 THEN (IF IsLeapYear(y) THEN 29 ELSE 28)
  ELSE IF mo \in {4, 6, 9, 11} THEN 30
  ELSE 31

\* to_datetime reading the month first (format '%m/%d/%Y')
to_datetime_month_first(text) ==
  LET mo == ParseInt(SubSeq(text, 1, 2))
      d  == ParseInt(SubSeq(text, 4, 5))
      y  == ParseInt(SubSeq(text, 7, 10))
  IN  IF y >= 1 /\ mo \in 1..12 /\ d >= 1 /\ d <= DaysInMonth(y, mo)
      THEN [kind |-> "Timestamp", year |-> y, month |-> mo, day |-> d]
      ELSE [kind |-> "ValueError", year |-> 0, month |-> 0, day |-> 0]

\* pd.to_datetime(text, format='%d/%m/%Y') of a text dd/mm/yyyy: the date,
\* or the ValueError raised when the fields are not a calendar date
to_datetime(text) ==
  LET d  == ParseInt(SubSeq(text, 1, 2))
      mo == ParseInt(SubSeq(text, 4, 5))
      y  == ParseInt(SubSeq(text, 7, 10))
  IN  IF y >= 1 /\ mo \in 1..12 /\ d >= 1 /\ d <= DaysInMonth(y, mo)
      THEN [kind |-> "Timestamp", year |-> y, month |-> mo, day |-> d]
      ELSE [kind |-> "ValueError", year |-> 0, month |-> 0, day |-> 0]

None == [kind |-> "None", year |-> 0, month |-> 0, day |-> 0]

\* the value returned, given the result of the search
PostedDateOf(match) == IF match.found THEN to_datetime(match.g[1]) ELSE None

extract_posted_date(description) ==
  IF isna(description) THEN None
  ELSE PostedDateOf(Search(description, LAMBDA m : date_pattern(description, m)))

----------------------------------------------------------------------------
(* The input table and JobDataAnalyzer.clean_data *)

DescPortLouisRange == <<"P", "o", "r", "t", " ", "L", "o", "u", "i", "s", " ", "1", "5", ",", "0", "0", "0", " ", "-", " ", "2", "5", ",", "0", "0", "0", " ", "P", "e", "r", "m", "a", "n", "e", "n", "t">>

DescMokaRange == <<"M", "o", "k", "a", " ", "1", "0", ",", "0", "9", "9", " ", "-", " ", "2", "5", ",", "0", "0", "0", " ", "C", "o", "n", "t", "r", "a", "c", "t">>

DescNegotiable == <<"S", "a", "l", "e", "s", " ", "r", "o", "l", "e", ",", " ", "s", "a", "l", "a", "r", "y", " ", "N", "e", "g", "o", "t", "i", "a", "b", "l", "e">>

DescBelowFloor == <<"M", "U", "R", " ", "5", "0", "0">>

DescSingleAmount == <<"F", "l", "a", "c", "q", " ", "M", "U", "R", " ", "4", "5", ",", "0", "0", "0", " ", "5", " ", "y", "e", "a", "r", "s", " ", "A", "d", "d", "e", "d", " ", "1", "5", "/", "0", "3", "/", "2", "0", "2", "3">>

DescNotDisclosed == <<"S", "a", "l", "a", "r", "y", " ", "N", "o", "t", " ", "d", "i", "s", "c", "l", "o", "s", "e", "d", ",", " ", "t", "r", "a", "i", "n", "e", "e">>

DescOddRange == <<"R", "s", " ", "1", "0", ",", "0", "0", "1", " ", "-", " ", "2", "0", ",", "0", "0", "0", " ", "p", "a", "r", "t", "-", "t", "i", "m", "e">>

DescBadDate == <<"A", "d", "d", "e", "d", " ", "3", "1", "/", "0", "2", "/", "2", "0", "2", "3">>

DescPlain == <<"H", "e", "l", "l", "o">>

Acme == <<"A", "c", "m", "e">>

AcmePadded == <<" ", "A", "c", "m", "e", " ">>

Clerk == <<"C", "l", "e", "r", "k">>

Driver == <<"D", "r", "i", "v", "e", "r">>

Row(t, c, d) == [title |-> t, company |-> c, description |-> d]

\* the rows an input table is drawn from; NA is a missing description
RowUniverse ==
  { Row(Clerk, Acme, DescPortLouisRange),
    Row(Clerk, AcmePadded, DescPortLouisRange),
    Row(Clerk, Acme, DescMokaRange),
    Row(Clerk, Acme, DescNegotiable),
    Row(Clerk, Acme, DescBelowFloor),
    Row(Driver, Acme, DescSingleAmount),
    Row(Clerk, Acme, DescNotDisclosed),
    Row(Clerk, Acme, DescOddRange),
    Row(Clerk, Acme, DescBadDate),
    Row(Driver, AcmePadded, DescPlain),
    Row(Clerk, Acme, NA) }

\* the largest number of rows of an input table
MaxRows == 2

Tables == UNION { [1..n -> RowUniverse] : n \in 0..MaxRows }

\* the input file: absent, or present with a table of rows
FileNotFound == [exists |-> FALSE, rows |-> <<>>]

File(t) == [exists |-> TRUE, rows |-> t]

\* drop_duplicates restricted to the description column
RECURSIVE drop_duplicates_by_description(_)
drop_duplicates_by_description(t) ==
  IF t = <<>> THEN <<>>
  ELSE LET front == SubSeq(t, 1, Len(t) - 1)
           last  == t[Len(t)]
       IN  IF \E j \in 1..Len(front) : front[j].description = last.description
           THEN drop_duplicates_by_description(front)
           ELSE Append(drop_duplicates_by_description(front), last)

\* DataFrame.drop_duplicates(): a row is dropped when an equal row precedes it
RECURSIVE drop_duplicates(_)
drop_duplicates(t) ==
  IF t = <<>> THEN <<>>
  ELSE LET front == SubSeq(t, 1, Len(t) - 1)
           last  == t[Len(t)]
       IN  IF \E j \in 1..Len(front) : front[j] = last
           THEN drop_duplicates(front)
           ELSE Append(drop_duplicates(front), last)

\* the raw columns of a row of a table
RawRow(r) == Row(r.title, r.company, r.description)

\* the columns clean_data assigns, in the order of the code
NewColumns ==
  << "salary_extracted", "salary_cleaned", "salary_min", "salary_max", "salary_average",
     "location_cleaned", "job_type_cleaned", "experience_cleaned", "skills",
     "company_cleaned", "posted_date_cleaned" >>

\* the value assigned to column c of a row r that has the earlier columns
ColumnValue(c, r) ==
  CASE c = "salary_extracted"    -> extract_salary_from_description(r.description)
    [] c = "salary_cleaned"      -> clean_salary(r.salary_extracted)
    [] c = "salary_min"          -> extract_salary_min(r.salary_cleaned)
    [] c = "salary_max"          -> extract_salary_max(r.salary_cleaned)
    [] c = "salary_average"      -> salary_average_of(r.salary_min, r.salary_max)
    [] c = "location_cleaned"    -> extract_location(r.description)
    [] c = "job_type_cleaned"    -> extract_job_type(r.description)
    [] c = "experience_cleaned"  -> extract_experience(r.description)
    [] c = "skills"              -> extract_skills(r.description)
    [] c = "company_cleaned"     -> IF isna(r.company) THEN NA ELSE strip(r.company)
    [] c = "posted_date_cleaned" -> extract_posted_date(r.description)

\* the assignments from the k-th on, applied to row r
RECURSIVE AddColumns(_, _)
AddColumns(r, k) ==
  IF k > Len(NewColumns) THEN r
  ELSE AddColumns(r @@ (NewColumns[k] :> ColumnValue(NewColumns[k], r)), k + 1)

\* the row clean_data makes of one raw row
CleanRow(r) == AddColumns(r, 1)

\* CleanRows with a location that is not specified filled from the row
\* before
CleanRowsFilledForward(kept) ==
  LET rows == [k \in 1..Len(kept) |-> CleanRow(kept[k])]
  IN  [k \in 1..Len(rows) |->
         IF k > 1 /\ rows[k].location_cleaned = NotSpecified
         THEN [rows[k] EXCEPT !.location_cleaned = rows[k - 1].location_cleaned]
         ELSE rows[k]]

\* Series.apply over the rows that are kept
CleanRows(kept) == [k \in 1..Len(kept) |-> CleanRow(kept[k])]

\* clean_data that also drops the rows without a description
clean_data_dropna(t) ==
  CleanRows(SelectSeq(drop_duplicates(t), LAMBDA r : ~isna(r.description)))

\* clean_data: the table it leaves in self.df
clean_data(t) == CleanRows(drop_duplicates(t))

\* clean_data raises: extract_posted_date raises on some row
clean_data_raises(t) ==
  \E k \in 1..Len(t) : extract_posted_date(t[k].description).kind = "ValueError"

----------------------------------------------------------------------------
(* load_data *)

\* no page has been selected
NoPage == ""

\* nothing has been selected, filtered or shown
MainNotStarted ==
  /\ page = NoPage
  /\ page_df = <<>>
  /\ filtered_df = <<>>
  /\ shown = {}

Init ==
  /\ csv \in {File(t) : t \in Tables} \cup {FileNotFound}
  /\ pc = "start"
  /\ df = <<>>
  /\ arg = <<>>
  /\ ret = <<>>
  /\ MainNotStarted

\* LoadDataMissing with a main that goes on with an empty table
LoadDataMissingContinues ==
  /\ pc = "start"
  /\ ~csv.exists
  /\ pc' = "loaded"
  /\ shown' = shown \cup {"file not found"}
  /\ UNCHANGED <<csv, df, arg, ret, page, page_df, filtered_df>>

\* read_csv raises FileNotFoundError: the error is shown and None returned
\* and main returns
LoadDataMissing ==
  /\ pc = "start"
  /\ ~csv.exists
  /\ pc' = "no_data"
  /\ shown' = shown \cup {"file not found"}
  /\ UNCHANGED <<csv, df, arg, ret, page, page_df, filtered_df>>

\* the file is read and JobDataAnalyzer(df).df is returned
LoadDataOk ==
  /\ pc = "start"
  /\ csv.exists
  /\ ~clean_data_raises(csv.rows)
  /\ df' = clean_data(csv.rows)
  /\ pc' = "loaded"
  /\ UNCHANGED <<csv, arg, ret, main_vars>>

\* clean_data raises a ValueError, which load_data does not catch
LoadDataRaises ==
  /\ pc = "start"
  /\ csv.exists
  /\ clean_data_raises(csv.rows)
  /\ pc' = "raised"
  /\ UNCHANGED <<csv, df, arg, ret, main_vars>>

(* main after load_data, and create_interactive_filters *)

NumericSalaryPage == "Jobs With Numeric Salary"

NegotiableSalaryPage == "Jobs With Negotiable Salary"

NoSalaryPage == "Jobs Without Salary"

Pages == {NumericSalaryPage, NegotiableSalaryPage, NoSalaryPage}

\* Series.notna()
notna(x) == ~x.nan

\* PageRows with the third page keeping the rows without an average salary
PageRowsWithoutAverage(table, p) ==
  SelectSeq(table,
    LAMBDA r : CASE p = NumericSalaryPage    -> notna(r.salary_average)
                 [] p = NegotiableSalaryPage -> r.salary_cleaned = Negotiable
                 [] p = NoSalaryPage         -> ~notna(r.salary_average))

\* the rows of the table that main keeps for page p
PageRows(table, p) ==
  SelectSeq(table,
    LAMBDA r : CASE p = NumericSalaryPage    -> notna(r.salary_average)
                 [] p = NegotiableSalaryPage -> r.salary_cleaned = Negotiable
                 [] p = NoSalaryPage         ->
                      r.salary_cleaned = NotDisclosed \/ r.salary_cleaned = NotSpecified)

\* a page is selected and its sub-table is made; main returns with a
\* message when the sub-table is empty
SelectPage ==
  /\ pc = "loaded"
  /\ \E p \in Pages :
       /\ page' = p
       /\ page_df' = PageRows(df, p)
       /\ IF PageRows(df, p) = <<>>
          THEN pc' = "returned" /\ shown' = shown \cup {"page header", "no jobs"}
          ELSE pc' = "page" /\ shown' = shown \cup {"page header", "analyzing"}
  /\ UNCHANGED <<csv, df, arg, ret, filtered_df>>

\* the choice 'All' of a selectbox
All == <<"A", "l", "l">>

\* Series.unique(), as a set
unique(table, column) == { table[k][column] : k \in 1..Len(table) }

\* the largest number of a non-empty set of numbers
Greatest(S) == CHOOSE k \in S : \A j \in S : k >= j

\* int() of a float that is not negative
int(x) == x.halves \div 2

\* the rows with an average salary
salary_data(table) == SelectSeq(table, LAMBDA r : notna(r.salary_average))

\* the int() of the average salaries of the rows of a table
IntAverages(table) == { int(table[k].salary_average) : k \in 1..Len(table) }

min_salary(table) == Least(IntAverages(salary_data(table)))

max_salary(table) == Greatest(IntAverages(salary_data(table)))

\* the pairs the slider returns that tell the rows apart: both ends at the
\* int() of an average salary, which lies between min_salary and max_salary
SliderRanges(table) ==
  IF salary_data(table) = <<>> THEN {<<0, 0>>}
  ELSE { range \in IntAverages(salary_data(table)) \X IntAverages(salary_data(table)) :
           /\ min_salary(table) <= range[1]
           /\ range[1] <= range[2]
           /\ range[2] <= max_salary(table) }

\* filtered_df[filtered_df[column] == selected] unless selected is 'All'
SelectedRows(table, column, selected) ==
  IF selected # All THEN SelectSeq(table, LAMBDA r : r[column] = selected) ELSE table

\* the salary range filter, applied when has_salary_data
RowsInRange(table, has_salary_data, salary_range) ==
  IF has_salary_data
  THEN SelectSeq(table,
         LAMBDA r : /\ notna(r.salary_average)
                    /\ r.salary_average.halves >= 2 * salary_range[1]
                    /\ r.salary_average.halves <= 2 * salary_range[2])
  ELSE table

\* create_interactive_filters(df), given what the widgets return
create_interactive_filters(table, selected_location, selected_job_type, selected_experience, salary_range) ==
  RowsInRange(
    SelectedRows(
      SelectedRows(
        SelectedRows(table, "location_cleaned", selected_location),
        "job_type_cleaned", selected_job_type),
      "experience_cleaned", selected_experience),
    salary_data(table) # <<>>, salary_range)

\* CreateInteractiveFilters with filters that also cut the table load_data
\* returned
CreateInteractiveFiltersInPlace ==
  /\ pc = "page"
  /\ \E selected_location \in {All} \cup unique(page_df, "location_cleaned"),
        selected_job_type \in {All} \cup unique(page_df, "job_type_cleaned"),
        selected_experience \in {All} \cup unique(page_df, "experience_cleaned"),
        salary_range \in SliderRanges(page_df) :
       /\ filtered_df' = create_interactive_filters(page_df, selected_location,
                           selected_job_type, selected_experience, salary_range)
       /\ df' = create_interactive_filters(page_df, selected_location,
                  selected_job_type, selected_experience, salary_range)
  /\ pc' = "filtered"
  /\ shown' = shown \cup {"filters"}
  /\ UNCHANGED <<csv, arg, ret, page, page_df>>

\* create_interactive_filters is called on the sub-table of the page
CreateInteractiveFilters ==
  /\ pc = "page"
  /\ \E selected_location \in {All} \cup unique(page_df, "location_cleaned"),
        selected_job_type \in {All} \cup unique(page_df, "job_type_cleaned"),
        selected_experience \in {All} \cup unique(page_df, "experience_cleaned"),
        salary_range \in SliderRanges(page_df) :
       filtered_df' = create_interactive_filters(page_df, selected_location,
                        selected_job_type, selected_experience, salary_range)
  /\ pc' = "filtered"
  /\ shown' = shown \cup {"filters"}
  /\ UNCHANGED <<csv, df, arg, ret, page, page_df>>

\* create_high_salary_analysis: the rows with an average salary above 10000
high_salary_df(table) ==
  SelectSeq(table, LAMBDA r : notna(r.salary_average) /\ r.salary_average.halves > 2 * 10000)

\* what create_high_salary_analysis shows: the warning when high_salary_df
\* is empty, the analysis otherwise
create_high_salary_analysis(table) ==
  IF high_salary_df(table) = <<>> THEN {"no high salaries"} ELSE {"high salaries"}

\* the reports of the page are made of the filtered table; the page of the
\* numeric salaries has the analysis of the high salaries among them
CreateReports ==
  /\ pc = "filtered"
  /\ filtered_df # <<>>
  /\ pc' = "returned"
  /\ shown' = shown \cup {"reports"} \cup
                (IF page = NumericSalaryPage THEN create_high_salary_analysis(filtered_df) ELSE {})
  /\ UNCHANGED <<csv, df, arg, ret, page, page_df, filtered_df>>

\* create_overview_metrics divides by len(df): ZeroDivisionError when no row
\* passes the filters
CreateReportsRaises ==
  /\ pc = "filtered"
  /\ filtered_df = <<>>
  /\ pc' = "zero_division"
  /\ UNCHANGED <<csv, df, arg, ret, main_vars>>

Next ==
  \/ LoadDataMissing
  \/ LoadDataOk
  \/ LoadDataRaises
  \/ SelectPage
  \/ CreateInteractiveFilters
  \/ CreateReports
  \/ CreateReportsRaises

Spec == Init /\ [][Next]_vars

----------------------------------------------------------------------------
(* The locators and the cleaner called on their own.  The argument of a    *)
(* call is a text given as the sequence of its fragments; ret is the       *)
(* sequence of the values returned so far.                                 *)

\* the text made of the fragments fs
RECURSIVE Concat(_)
Concat(fs) == IF fs = <<>> THEN <<>> ELSE Head(fs) \o Concat(Tail(fs))

\* the sequences of at most n elements of S
UpTo(S, n) == UNION { [1..k -> S] : k \in 0..n }

DigitChars == <<"0", "1", "2", "3", "4", "5", "6", "7", "8", "9">>

\* the decimal text of n, at least width digits wide (zero padded)
RECURSIVE Decimal(_, _)
Decimal(n, width) ==
  IF n < 10 /\ width <= 1 THEN <<DigitChars[n + 1]>>
  ELSE Append(Decimal(n \div 10, width - 1), DigitChars[(n % 10) + 1])

InitCall(fn, args) ==
  /\ csv = FileNotFound
  /\ pc = fn
  /\ df = <<>>
  /\ arg \in args
  /\ ret = <<>>
  /\ MainNotStarted

(* clean_salary, applied to a text and then to its own result *)

MaxSalaryTextFragments == 4

SalaryTextFragments ==
  { <<"N", "e", "g", "o">>,
    <<"t", "i", "a", "b", "l", "e">>,
    <<"N", "o", "t", " ">>,
    <<"s", "p", "e", "c", "i", "f", "i", "e", "d">>,
    <<"d", "i", "s", "c", "l", "o", "s", "e", "d">>,
    <<"M">>,
    <<"R", "s">>,
    <<",">>,
    <<" ", "\t">>,
    <<"5">> }

InitCleanSalary ==
  InitCall("clean_salary", UpTo(SalaryTextFragments, MaxSalaryTextFragments) \cup {<<NA>>})

CallCleanSalary ==
  /\ pc = "clean_salary"
  /\ Len(ret) < 2
  /\ ret' = Append(ret, clean_salary(IF ret = <<>> THEN Concat(arg) ELSE ret[Len(ret)]))
  /\ UNCHANGED <<csv, pc, df, arg, main_vars>>

SpecCleanSalary == InitCleanSalary /\ [][CallCleanSalary]_vars

(* extract_salary_from_description *)

MaxSalaryFragments == 3

SalaryFragments ==
  { <<"M", "U", "R", " ", "5", "0", "0">>,
    <<"M", "U", "R", " ", "0", ",", "9", "9", "9">>,
    <<"R", "s", " ", "1", ",", "0", "0", "0">>,
    <<"2", "0", ",", "0", "0", "0", " ", "M", "U", "R">>,
    <<"9", "9", "9", " ", "r", "s">>,
    <<" ", "s", "a", "l", "a", "r", "y", " ">>,
    <<"N", "e", "g", "o", "t", "i", "a", "b", "l", "e">>,
    <<"M", "o", "k", "a", " ", "5", " ", "P", "e", "r", "m", "a", "n", "e", "n", "t">>,
    <<"M", "U", "R", " ", "9", "0", "0", " ", "-", " ", "9", "5", "0", " ">> }

InitSalaryLocator ==
  InitCall("extract_salary_from_description", UpTo(SalaryFragments, MaxSalaryFragments) \cup {<<NA>>})

CallSalaryLocator ==
  /\ pc = "extract_salary_from_description"
  /\ ret = <<>>
  /\ ret' = <<extract_salary_from_description(Concat(arg))>>
  /\ UNCHANGED <<csv, pc, df, arg, main_vars>>

SpecSalaryLocator == InitSalaryLocator /\ [][CallSalaryLocator]_vars

(* extract_salary_from_description on a text with, in any order, at most   *)
(* one part for each step of the locator                                   *)

\* a part the composite pattern matches
CompositeParts == { <<>>, <<"M", "o", "k", "a", " ", "5", " ", "P", "e", "r", "m", "a", "n", "e", "n", "t", " ">> }

\* parts a two-amount currency pattern matches
RangeParts == { <<>>, <<"9", ",", "0", "0", "0", " ", "-", " ", "5", "0", " ", "R", "s", " ">>, <<"M", "U", "R", " ", "1", ",", "0", "0", "0", " ", "-", " ", "2", ",", "0", "0", "0", " ">> }

\* parts a one-amount currency pattern matches, above and below the floor
SingleParts == { <<>>, <<"R", "s", " ", "1", ",", "0", "0", "0", " ">>, <<"M", "U", "R", " ", "5", "0", "0", " ">> }

\* parts with the keywords of the last steps
KeywordParts == { <<>>, <<"N", "e", "g", "o", "t", "i", "a", "b", "l", "e", " ">>, <<"N", "o", "t", " ", "d", "i", "s", "c", "l", "o", "s", "e", "d", " ">>, <<"N", "o", "t", " ", "d", "i", "s", "c", "l", "o", "s", "e", "d", " ", "N", "e", "g", "o", "t", "i", "a", "b", "l", "e", " ">> }

InitSalaryPriority ==
  InitCall("extract_salary_from_description",
           { [i \in 1..4 |-> parts[order[i]]] :
               parts \in CompositeParts \X RangeParts \X SingleParts \X KeywordParts,
               order \in Permutations(1..4) })

SpecSalaryPriority == InitSalaryPriority /\ [][CallSalaryLocator]_vars

(* extract_experience: arg is <<lead, number, unit, tail>> *)

\* the largest number of years in a description
MaxYears == 12

ExperienceLeads == { <<>>, <<"m", "i", "n", "i", "m", "u", "m", " ">>, <<"A", "t", " ", "l", "e", "a", "s", "t", " ">>, <<"E", "x", "p", ":", " ">> }

ExperienceUnits ==
  { <<" ", "y", "e", "a", "r", "s">>,
    <<"+", " ", "y", "e", "a", "r", "s">>,
    <<"y", "e", "a", "r", "s">>,
    <<" ", "Y", "e", "a", "r">>,
    <<" ", "a", "n", "s">>,
    <<"a", "n">>,
    <<" ", "m", "o", "n", "t", "h", "s">> }

ExperienceTails == { <<>>, <<" ", "e", "x", "p", "e", "r", "i", "e", "n", "c", "e">> }

InitExperience ==
  InitCall("extract_experience",
           { <<l, Decimal(n, 1), u, e>> :
               l \in ExperienceLeads, n \in 0..MaxYears, u \in ExperienceUnits,
               e \in ExperienceTails } \cup {<<NA>>})

CallExperience ==
  /\ pc = "extract_experience"
  /\ ret = <<>>
  /\ ret' = <<extract_experience(Concat(arg))>>
  /\ UNCHANGED <<csv, pc, df, arg, main_vars>>

SpecExperience == InitExperience /\ [][CallExperience]_vars

(* extract_posted_date: arg is <<lead, marker, dd, "/", mm, "/", yyyy>> *)

\* the largest day and month numbers written in a description
MaxDay == 32

MaxMonth == 13

DateYears == {1900, 2000, 2023, 2024}

DateLeads == { <<>>, <<"P", "o", "s", "t", "e", "d", ".", " ">> }

Added == <<"A", "d", "d", "e", "d", " ">>

DateMarkers == { Added, <<"A", "d", "d", "e", "d", " ", "\t">>, <<"a", "d", "d", "e", "d", " ">>, <<"A", "d", "d", "e", "d">>, <<>> }

InitPostedDate ==
  InitCall("extract_posted_date",
           { <<l, k, Decimal(d, 2), <<"/">>, Decimal(mo, 2), <<"/">>, Decimal(y, 4)>> :
               l \in DateLeads, k \in DateMarkers, d \in 0..MaxDay, mo \in 0..MaxMonth,
               y \in DateYears } \cup {<<NA>>, <<>>})

\* the call returns
CallPostedDate ==
  /\ pc = "extract_posted_date"
  /\ ret = <<>>
  /\ extract_posted_date(Concat(arg)).kind # "ValueError"
  /\ ret' = <<extract_posted_date(Concat(arg))>>
  /\ UNCHANGED <<csv, pc, df, arg, main_vars>>

\* the call raises
CallPostedDateRaises ==
  /\ pc = "extract_posted_date"
  /\ ret = <<>>
  /\ extract_posted_date(Concat(arg)).kind = "ValueError"
  /\ pc' = "raised"
  /\ UNCHANGED <<csv, df, arg, ret, main_vars>>

SpecPostedDate == InitPostedDate /\ [][CallPostedDate \/ CallPostedDateRaises]_vars

(* extract_location: arg is <<lead, name, separator, name>> *)

\* a region name as configured, in capitals and in small letters
LocationSpellings(name) == { name, upper(name), lower(name) }

LocationMentions == {<<>>} \cup UNION { LocationSpellings(locations[k]) : k \in 1..Len(locations) }

LocationLeads == { <<>>, <<"J", "o", "b", " ", "i", "n", " ">> }

InitLocation ==
  InitCall("extract_location",
           { <<l, a, <<",", " ">>, b>> :
               l \in LocationLeads, a \in LocationMentions, b \in LocationMentions } \cup {<<NA>>})

CallLocation ==
  /\ pc = "extract_location"
  /\ ret = <<>>
  /\ ret' = <<extract_location(Concat(arg))>>
  /\ UNCHANGED <<csv, pc, df, arg, main_vars>>

SpecLocation == InitLocation /\ [][CallLocation]_vars

(* extract_job_type: arg is <<lead, keyword, separator, keyword>> *)

JobTypeKeywords ==
  { <<"P", "e", "r", "m", "a", "n", "e", "n", "t">>,
    <<"C", "d", "i">>,
    <<"C", "o", "n", "t", "r", "a", "c", "t">>,
    <<"T", "e", "m", "p", "o", "r", "a", "r", "y">>,
    <<"T", "r", "a", "i", "n", "e", "e">>,
    <<"I", "n", "t", "e", "r", "n", "s", "h", "i", "p">>,
    <<"P", "a", "r", "t", "-", "T", "i", "m", "e">> }

\* nothing, a keyword in capitals, in small letters or with an initial
\* capital, and part time written without its hyphen
JobTypeMentions ==
  {<<>>, <<"p", "a", "r", "t", " ", "t", "i", "m", "e">>} \cup UNION { {kw, upper(kw), lower(kw)} : kw \in JobTypeKeywords }

JobTypeLeads == { <<>>, <<"C", "l", "e", "r", "k", " ">> }

InitJobType ==
  InitCall("extract_job_type",
           { <<l, a, <<",", " ">>, b>> :
               l \in JobTypeLeads, a \in JobTypeMentions, b \in JobTypeMentions } \cup {<<NA>>})

CallJobType ==
  /\ pc = "extract_job_type"
  /\ ret = <<>>
  /\ ret' = <<extract_job_type(Concat(arg))>>
  /\ UNCHANGED <<csv, pc, df, arg, main_vars>>

SpecJobType == InitJobType /\ [][CallJobType]_vars

(* extract_experience on two mentions of a number of years: arg is        *)
(* <<mention, separator, mention>>                                         *)

MentionLeads == { <<>>, <<"m", "i", "n", "i", "m", "u", "m", " ">>, <<"A", "t", " ", "l", "e", "a", "s", "t", " ">> }

\* one number of years of each band
MentionYears == { 1, 3, 8, 12 }

MentionUnits ==
  { <<" ", "y", "e", "a", "r", "s">>,
    <<"+", " ", "Y", "e", "a", "r", "s">>,
    <<" ", "a", "n", "s">>,
    <<" ", "m", "o", "n", "t", "h", "s">> }

ExperienceMentions ==
  {<<>>} \cup { l \o Decimal(n, 1) \o u : l \in MentionLeads, n \in MentionYears, u \in MentionUnits }

InitExperiencePriority ==
  InitCall("extract_experience",
           { <<a, <<",", " ">>, b>> : a \in ExperienceMentions, b \in ExperienceMentions })

SpecExperiencePriority == InitExperiencePriority /\ [][CallExperience]_vars

(* extract_skills: arg is <<mention, separator, mention>> *)

\* the phrases of the vocabulary that are mentioned one or two at a time
MentionedSkills ==
  { <<"e", "x", "c", "e", "l">>,
    <<"w", "o", "r", "d">>,
    <<"m", "i", "c", "r", "o", "s", "o", "f", "t", " ", "o", "f", "f", "i", "c", "e">>,
    <<"p", "r", "o", "j", "e", "c", "t", " ", "m", "a", "n", "a", "g", "e", "m", "e", "n", "t">>,
    <<"t", "i", "m", "e", " ", "m", "a", "n", "a", "g", "e", "m", "e", "n", "t">>,
    <<"h", "r">>,
    <<"i", "t">>,
    <<"w", "r", "i", "t", "i", "n", "g">>,
    <<"f", "r", "e", "n", "c", "h">>,
    <<"p", "r", "o", "b", "l", "e", "m", " ", "s", "o", "l", "v", "i", "n", "g">> }

\* a text with every phrase of the vocabulary
RECURSIVE EverySkillFrom(_)
EverySkillFrom(k) ==
  IF k > Len(skills_list) THEN <<>> ELSE skills_list[k] \o <<" ">> \o EverySkillFrom(k + 1)

\* nothing, a phrase in small letters, in capitals or in title case, every
\* phrase at once, and two words outside the vocabulary
SkillMentions ==
  {<<>>, EverySkillFrom(1), <<"C", "h", "r", "o", "m", "e">>, <<"d", "r", "i", "v", "i", "n", "g">>} \cup UNION { {sk, upper(sk), title(sk)} : sk \in MentionedSkills }

InitSkills ==
  InitCall("extract_skills",
           { <<a, <<",", " ">>, b>> : a \in SkillMentions, b \in SkillMentions } \cup {<<NA>>})

CallSkills ==
  /\ pc = "extract_skills"
  /\ ret = <<>>
  /\ ret' = <<extract_skills(Concat(arg))>>
  /\ UNCHANGED <<csv, pc, df, arg, main_vars>>

SpecSkills == InitSkills /\ [][CallSkills]_vars

(* extract_salary_from_description on a span, a number and an employment  *)
(* word: arg is <<span, " ", number, " ", word, tail>>                     *)

CompositeSpans == { <<"M", "o", "k", "a">>, <<"P", "o", "r", "t", " ", "L", "o", "u", "i", "s">>, <<"J", "o", "b", " ", "i", "n", " ", "F", "l", "a", "c", "q">> }

\* numbers of one to three digits and numbers with a comma group
CompositeNumbers == { <<"5">>, <<"0", "5">>, <<"5", "0">>, <<"9", "9">>, <<"0", ",", "5", "0", "0">>, <<"5", "0", "0">>, <<"9", "9", "9">>, <<"1", ",", "0", "0", "0">>, <<"4", "5", ",", "0", "0", "0">> }

CompositeWords == { <<"P", "e", "r", "m", "a", "n", "e", "n", "t">>, <<"C", "o", "n", "t", "r", "a", "c", "t">>, <<"T", "e", "m", "p", "o", "r", "a", "r", "y">>, <<"p", "e", "r", "m", "a", "n", "e", "n", "t">> }

CompositeTails == { <<>>, <<" ", "M", "U", "R", " ", "2", "0", ",", "0", "0", "0">>, <<" ", "N", "e", "g", "o", "t", "i", "a", "b", "l", "e">> }

InitCompositeAmount ==
  InitCall("extract_salary_from_description",
           { <<l, <<" ">>, n, <<" ">>, w, e>> :
               l \in CompositeSpans, n \in CompositeNumbers, w \in CompositeWords, e \in CompositeTails })

SpecCompositeAmount == InitCompositeAmount /\ [][CallSalaryLocator]_vars

(* extract_salary_from_description on two single amounts with a currency: *)
(* arg is <<lead, amount, filler, amount>>                                 *)

SingleAmountLeads == { <<>>, <<"P", "a", "y", ":", " ">> }

\* amounts above and below the floor, the currency before and after
SingleAmounts ==
  { <<>>, <<"M", "U", "R", " ", "5", "0", "0">>, <<"M", "U", "R", " ", "5", "0">>, <<"M", "U", "R", " ", "2", "0", ",", "0", "0", "0">>, <<"R", "s", " ", "5", "0", "0">>, <<"R", "s", " ", "2", "0", ",", "0", "0", "0">>, <<"5", "0", "0", " ", "M", "U", "R">>, <<"2", "0", ",", "0", "0", "0", " ", "M", "U", "R">>, <<"5", "0", " ", "R", "s">>, <<"2", "0", ",", "0", "0", "0", " ", "R", "s">> }

InitSingleAmounts ==
  InitCall("extract_salary_from_description",
           { <<l, a, <<" ", "b", "o", "n", "u", "s", ",", " ", "s", "a", "l", "a", "r", "y", " ">>, b>> :
               l \in SingleAmountLeads, a \in SingleAmounts, b \in SingleAmounts })

SpecSingleAmounts == InitSingleAmounts /\ [][CallSalaryLocator]_vars

----------------------------------------------------------------------------
(* Properties *)

\* the rows of the table load_data returned
Rows == 1..Len(df)

\* the text of the argument of a call
Text == Concat(arg)

PortLouis == <<"P", "o", "r", "t", " ", "L", "o", "u", "i", "s">>

\* C1: a record whose description contains "Port Louis 15,000 - 25,000
\* Permanent" gets location Port Louis, job type Permanent, salary_min
\* 15000, salary_max 25000 and salary_average 20000.
C1_PortLouisScenario ==
  \A k \in Rows :
    Contains(df[k].description, DescPortLouisRange) =>
      /\ df[k].location_cleaned = PortLouis
      /\ df[k].job_type_cleaned = Permanent
      /\ df[k].salary_min = Float(15000)
      /\ df[k].salary_max = Float(25000)
      /\ df[k].salary_average = Float(20000)

\* C2: in every record, when salary_min and salary_max are both present,
\* salary_min <= salary_max.
C2_BoundsOrdered ==
  \A k \in Rows :
    (~df[k].salary_min.nan /\ ~df[k].salary_max.nan) =>
      df[k].salary_min.halves <= df[k].salary_max.halves

\* C3: in every record, salary_average is present exactly when both bounds
\* are present, and then it is their arithmetic mean.
C3_AverageDefined ==
  \A k \in Rows :
    /\ ~df[k].salary_average.nan <=> (~df[k].salary_min.nan /\ ~df[k].salary_max.nan)
    /\ ~df[k].salary_average.nan =>
         2 * df[k].salary_average.halves = df[k].salary_min.halves + df[k].salary_max.halves

\* a record with a fractional average next to a record with none
C3_Witness ==
  /\ pc = "loaded"
  /\ \E k \in Rows : ~df[k].salary_average.nan /\ df[k].salary_average.halves % 2 = 1
  /\ \E k \in Rows : df[k].salary_average.nan /\ df[k].salary_min.nan /\ df[k].salary_max.nan

\* C4: clean_salary is idempotent: cleaning a cleaned text returns it
\* unchanged.
C4_CleanIdempotent ==
  (pc = "clean_salary" /\ Len(ret) = 2) => ret[2] = ret[1]

\* the raw columns of the returned table
RawOf(table) == [k \in 1..Len(table) |-> RawRow(table[k])]

\* the indices of the rows of t that no equal row precedes
FirstOccurrences(t) == { i \in 1..Len(t) : \A j \in 1..(i - 1) : t[j] # t[i] }

\* the k-th smallest element of a set of numbers
Nth(S, k) == CHOOSE i \in S : Cardinality({ j \in S : j <= i }) = k

C6_RowsPreserved ==
  pc = "loaded" =>
    LET kept == drop_duplicates(csv.rows)
    IN  /\ Len(df) = Len(kept)
        /\ \A k \in 1..Len(kept) : RawRow(df[k]) = kept[k]

\* a table with a row that has no description and a row no pattern matches
C6_Witness ==
  /\ pc = "loaded"
  /\ Len(df) = 2
  /\ \E k \in Rows : isna(df[k].description)
  /\ \E k \in Rows : df[k].description = DescPlain

HasDigit(s) == \E i \in 1..Len(s) : IsDigit(s[i])

AllAbsent(r) == r.salary_min.nan /\ r.salary_max.nan /\ r.salary_average.nan

\* C7: a description with "Negotiable" and no number gives salary_cleaned
\* Negotiable and no bounds and no average; whenever salary_cleaned is
\* 'Not specified' or 'Negotiable' the bounds and the average are absent.
C7_SentinelsHaveNoBounds ==
  \A k \in Rows :
    /\ (~isna(df[k].description) /\ Contains(df[k].description, Negotiable)
          /\ ~HasDigit(df[k].description)) =>
         (df[k].salary_cleaned = Negotiable /\ AllAbsent(df[k]))
    /\ df[k].salary_cleaned \in {NotSpecified, Negotiable} => AllAbsent(df[k])

C7_Witness ==
  /\ pc = "loaded"
  /\ \E k \in Rows : df[k].description = DescNegotiable /\ df[k].salary_cleaned = Negotiable
  /\ \E k \in Rows : df[k].salary_cleaned = NotSpecified

\* a digit or a thousands separator
IsAmountChar(c) == IsDigit(c) \/ c = ","

\* the values of the maximal runs of digits and commas of s
AmountsIn(s) ==
  { ParseInt(RemoveChars(SubSeq(s, i, i + RunLength(s, IsAmountChar, i) - 1), {","})) :
      i \in { j \in 1..Len(s) : IsAmountChar(s[j]) /\ (j = 1 \/ ~IsAmountChar(s[j - 1])) } }

\* no employment-type keyword: the composite pattern cannot match
NoEmploymentKeyword(s) ==
  ~Contains(s, Permanent) /\ ~Contains(s, Contract) /\ ~Contains(s, Temporary)

\* C8: with no composite match, no range and no 'Negotiable' or
\* 'Not disclosed', a description whose amounts are all below 1000 gives
\* 'Not specified'; a single amount is returned by the currency patterns only
\* when its value is at least 1000.
C8_SingleAmountFloor ==
  (pc = "extract_salary_from_description" /\ ret # <<>> /\ arg # <<NA>>) =>
    /\ ( /\ NoEmploymentKeyword(Text)
         /\ ~Contains(Text, <<"-">>)
         /\ ~Contains(Text, Negotiable) /\ ~Contains(Text, NotDisclosed)
         /\ \A v \in AmountsIn(Text) : v < 1000 )
       => ret[1] = NotSpecified
    /\ ( /\ NoEmploymentKeyword(Text)
         /\ ret[1] # <<>>
         /\ \A i \in 1..Len(ret[1]) : IsAmountChar(ret[1][i]) )
       => ParseInt(RemoveChars(ret[1], {","})) >= 1000

C8_Witness ==
  /\ pc = "extract_salary_from_description"
  /\ arg = << <<"M", "U", "R", " ", "5", "0", "0">> >>
  /\ ret = <<NotSpecified>>

\* C9: the number N of the first matching pattern is banded with closed
\* thresholds 2, 5 and 10, and a description no pattern matches gives
\* 'Not specified'.
C9_ExperienceBands ==
  (pc = "extract_experience" /\ ret # <<>> /\ arg # <<NA>>) =>
    LET N == ParseInt(arg[2])
    IN  IF arg[3] = <<" ", "m", "o", "n", "t", "h", "s">> THEN ret[1] = NotSpecified
        ELSE /\ N <= 2 => ret[1] = EntryLevel
             /\ (3 <= N /\ N <= 5) => ret[1] = MidLevel
             /\ (6 <= N /\ N <= 10) => ret[1] = SeniorLevel
             /\ N > 10 => ret[1] = ExecutiveLevel

\* "5 years experience"
C9_Witness ==
  /\ pc = "extract_experience"
  /\ Text = <<"5", " ", "y", "e", "a", "r", "s", " ", "e", "x", "p", "e", "r", "i", "e", "n", "c", "e">>
  /\ ret = <<MidLevel>>

\* day d of month mo of year y is a calendar date
IsCalendarDate(d, mo, y) ==
  /\ mo \in 1..12
  /\ d >= 1
  /\ d <= (IF mo \in {1, 3, 5, 7, 8, 10, 12} THEN 31
           ELSE IF mo # 2 THEN 30
           ELSE IF y % 400 = 0 \/ (y % 4 = 0 /\ y % 100 # 0) THEN 29 ELSE 28)

\* C10: after the marker "Added" and white space, a valid DD/MM/YYYY date
\* is returned read day first; without the marker the result is absent.
C10_PostedDateDayFirst ==
  (pc \in {"extract_posted_date", "raised"} /\ Len(arg) = 7) =>
    LET d  == ParseInt(arg[3])
        mo == ParseInt(arg[5])
        y  == ParseInt(arg[7])
        marked == arg[2] # <<>> /\ OccursAt(arg[2], Added, 1, FALSE)
    IN  /\ (marked /\ IsCalendarDate(d, mo, y)) =>
             /\ pc # "raised"
             /\ ret # <<>> => ret[1] = [kind |-> "Timestamp", year |-> y, month |-> mo, day |-> d]
        /\ (~marked /\ ret # <<>>) => ret[1] = None

\* "Added 15/03/2023"
C10_Witness ==
  /\ pc = "extract_posted_date"
  /\ Text = <<"A", "d", "d", "e", "d", " ", "1", "5", "/", "0", "3", "/", "2", "0", "2", "3">>
  /\ ret = <<[kind |-> "Timestamp", year |-> 2023, month |-> 3, day |-> 15]>>

\* C11: after the marker "Added" and white space, a DD/MM/YYYY token that
\* is not a calendar date gives an absent posted date, and the call does not
\* raise.
C11_MalformedDateAbsent ==
  (pc \in {"extract_posted_date", "raised"} /\ Len(arg) = 7) =>
    LET d  == ParseInt(arg[3])
        mo == ParseInt(arg[5])
        y  == ParseInt(arg[7])
        marked == arg[2] # <<>> /\ OccursAt(arg[2], Added, 1, FALSE)
    IN  (marked /\ ~IsCalendarDate(d, mo, y)) =>
          /\ pc # "raised"
          /\ ret # <<>> => ret[1] = None

\* C12: a record whose description is missing gets the default of every
\* locator ('Not specified', absent bounds and average, no skills, no posted
\* date), and every such record of the input is in the table load_data
\* returns.
C12_MissingDescriptionDefaults ==
  /\ \A k \in Rows :
       isna(df[k].description) =>
         /\ df[k].salary_extracted = NotSpecified
         /\ df[k].salary_cleaned = NotSpecified
         /\ AllAbsent(df[k])
         /\ df[k].location_cleaned = NotSpecified
         /\ df[k].job_type_cleaned = NotSpecified
         /\ df[k].experience_cleaned = NotSpecified
         /\ df[k].skills = <<>>
         /\ df[k].posted_date_cleaned = None
  /\ pc = "loaded" =>
       \A i \in 1..Len(csv.rows) :
         isna(csv.rows[i].description) => \E k \in Rows : RawRow(df[k]) = csv.rows[i]

\* a table with a record without a description next to a record with a salary
C12_Witness ==
  /\ pc = "loaded"
  /\ \E k \in Rows : isna(df[k].description)
  /\ \E k \in Rows : ~df[k].salary_average.nan

\* C13: when the input file is not found, load_data shows the error and
\* returns no table, and main stops there: no table is built, no page is
\* selected, nothing is filtered or reported, and no further step is taken.
C13_MissingInputStops ==
  /\ [](~csv.exists =>
          /\ pc \in {"start", "no_data"}
          /\ df = <<>>
          /\ page = NoPage /\ page_df = <<>> /\ filtered_df = <<>>
          /\ shown = (IF pc = "no_data" THEN {"file not found"} ELSE {}))
  /\ [][pc # "no_data"]_vars

C13_Witness ==
  /\ ~csv.exists
  /\ pc = "no_data"
  /\ shown = {"file not found"}

\* the fields clean_data derives from the description of a record
DerivedFromDescription(r) ==
  << r.salary_extracted, r.salary_cleaned, r.salary_min, r.salary_max, r.salary_average,
     r.location_cleaned, r.job_type_cleaned, r.experience_cleaned, r.skills,
     r.posted_date_cleaned >>

\* C14: the derived fields of a record depend on that record alone: the
\* record is what clean_data makes of a table holding only its raw row, two
\* records with the same description have the same fields derived from it,
\* and two records with the same company have the same company_cleaned.
C14_FieldsDependOnOwnRecord ==
  pc = "loaded" =>
    /\ \A k \in Rows : df[k] = clean_data(<<RawRow(df[k])>>)[1]
    /\ \A j, k \in Rows :
         /\ df[j].description = df[k].description =>
              DerivedFromDescription(df[j]) = DerivedFromDescription(df[k])
         /\ df[j].company = df[k].company => df[j].company_cleaned = df[k].company_cleaned

\* two records with the same description and another company, and two
\* records with different descriptions of which the second has no location
C14_Witness ==
  /\ pc = "loaded"
  /\ Len(df) = 2
  /\ \/ /\ df[1].description = df[2].description
        /\ df[1].company # df[2].company
        /\ ~df[1].salary_average.nan
     \/ /\ df[1].location_cleaned # NotSpecified
        /\ df[2].location_cleaned = NotSpecified

\* every row of table a is a row of table b
RowsWithin(a, b) == \A k \in 1..Len(a) : \E j \in 1..Len(b) : b[j] = a[k]

\* C15: once load_data has returned, no page selection, filter or report
\* changes the table it returned; the sub-table of a page holds rows of that
\* table and the filtered table holds rows of the sub-table.
C15_BaseTableNotMutated ==
  /\ [][pc # "start" => df' = df]_vars
  /\ [](RowsWithin(page_df, df) /\ RowsWithin(filtered_df, page_df))

\* the filters dropped one of the two records of a page
C15_Witness ==
  /\ pc = "filtered"
  /\ Len(df) = 2
  /\ Len(page_df) = 2
  /\ Len(filtered_df) = 1

\* the search for the composite pattern in a description
CompositeSearch(desc) == Search(desc, LAMBDA m : location_salary_pattern(desc, m))

\* the search for the k-th currency pattern in a description
CurrencySearch(desc, k) ==
  Search(desc, LAMBDA m : CurrencyPattern(desc, salary_patterns[k], m))

\* a match of a currency pattern that makes the loop return: two amounts,
\* or one amount of at least 1000
MatchYields(match) ==
  /\ match.found
  /\ Len(match.g) >= 2 \/ ParseInt(RemoveChars(match.g[1], {","})) >= 1000

\* the text returned for a match of a currency pattern
MatchResult(match) ==
  IF Len(match.g) >= 2 THEN match.g[1] \o <<" ", "-", " ">> \o match.g[2] ELSE match.g[1]

\* the currency patterns that make the loop return for a description
YieldingPatterns(desc) ==
  { k \in 1..Len(salary_patterns) : MatchYields(CurrencySearch(desc, k)) }

\* the result of the steps after the composite one, given the currency
\* patterns that yield
AfterComposite(desc, yielding) ==
  IF yielding # {} THEN MatchResult(CurrencySearch(desc, Least(yielding)))
  ELSE IF Contains(desc, Negotiable) THEN Negotiable
  ELSE IF Contains(desc, NotDisclosed) THEN NotDisclosed
  ELSE NotSpecified

\* the result by strict priority, given the composite match
ByPriority(desc, composite) ==
  IF composite.found THEN strip(composite.g[2])
  ELSE AfterComposite(desc, YieldingPatterns(desc))

\* C16: the locator returns at the first step that yields a result, in the
\* order: the composite pattern (its captured span, whatever currency amount
\* also occurs), the currency patterns in list order, 'Negotiable',
\* 'Not disclosed', 'Not specified'.
C16_SalaryPriorityOrder ==
  (pc = "extract_salary_from_description" /\ ret # <<>> /\ arg # <<NA>>) =>
    ret[1] = ByPriority(Text, CompositeSearch(Text))

\* "Rs 1,000 Moka 5 Permanent ": the composite span wins over the currency
\* amount that comes first in the text
C16_Witness ==
  /\ pc = "extract_salary_from_description"
  /\ Text = <<"R", "s", " ", "1", ",", "0", "0", "0", " ", "M", "o", "k", "a", " ", "5", " ", "P", "e", "r", "m", "a", "n", "e", "n", "t", " ">>
  /\ ret = << <<"5">> >>

\* the two-amount currency patterns that match a description
MatchingRangePatterns(desc) ==
  { k \in 1..Len(salary_patterns) : salary_patterns[k].range /\ CurrencySearch(desc, k).found }

\* "<num1> - <num2>" of the captures of a match
RangeText(g) == g[1] \o <<" ", "-", " ">> \o g[2]

\* the result when the two-amount patterns `matching` match
RangeResultIs(desc, matching, result) ==
  matching # {} => result = RangeText(CurrencySearch(desc, Least(matching)).g)

\* C17: when the composite pattern does not match and a two-amount currency
\* pattern does, the result is "<num1> - <num2>" of the first such pattern:
\* the two captured amounts in text order, whatever their values.
C17_RangeTextAsCaptured ==
  (pc = "extract_salary_from_description" /\ ret # <<>> /\ arg # <<NA>>) =>
    (~CompositeSearch(Text).found =>
       RangeResultIs(Text, MatchingRangePatterns(Text), ret[1]))

\* "9,000 - 50 Rs": the second amount is below 1000 and below the first
C17_Witness ==
  /\ pc = "extract_salary_from_description"
  /\ Text = <<"9", ",", "0", "0", "0", " ", "-", " ", "5", "0", " ", "R", "s", " ">>
  /\ ret = << <<"9", ",", "0", "0", "0", " ", "-", " ", "5", "0">> >>

\* the characters clean_salary removes: the currency letters and the comma
RemovedBySalaryCleaning == CurrencyLetters \cup {","}

\* a text with no removed character, no white space at either end, and no
\* white space other than single spaces
IsCleanSalaryText(y) ==
  /\ \A i \in 1..Len(y) : y[i] \notin RemovedBySalaryCleaning
  /\ \A i \in 1..Len(y) : IsSpace(y[i]) => (y[i] = " " /\ i # 1 /\ i # Len(y))
  /\ \A i \in 1..(Len(y) - 1) : ~(IsSpace(y[i]) /\ IsSpace(y[i + 1]))

\* y has the characters of x that are neither removed nor white space, in
\* their order, and a space exactly where x has white space between two of
\* them
IsCleanedFrom(x, y) ==
  /\ SelectSeq(y, LAMBDA c : ~IsSpace(c))
       = SelectSeq(x, LAMBDA c : ~IsSpace(c) /\ c \notin RemovedBySalaryCleaning)
  /\ SelectSeq(y, LAMBDA c : ~IsSpace(c)) # <<>> =>
       Len(y) - Len(SelectSeq(y, LAMBDA c : ~IsSpace(c)))
         = Cardinality({ i \in 2..Len(strip(RemoveChars(x, RemovedBySalaryCleaning))) :
                           /\ IsSpace(strip(RemoveChars(x, RemovedBySalaryCleaning))[i - 1])
                           /\ ~IsSpace(strip(RemoveChars(x, RemovedBySalaryCleaning))[i]) })

\* C18: clean_salary maps 'Negotiable' and 'Not disclosed' to 'Negotiable'
\* and 'Not specified' to itself; a text without these keywords comes back
\* without currency letters and commas, with every run of white space as one
\* space and none at the ends; the result is never 'Not disclosed'.
C18_CleanSalaryCases ==
  (pc = "clean_salary" /\ ret # <<>> /\ arg # <<NA>>) =>
    /\ Text \in {Negotiable, NotDisclosed} => ret[1] = Negotiable
    /\ Text = NotSpecified => ret[1] = NotSpecified
    /\ (Text # NotSpecified /\ ~Contains(Text, Negotiable) /\ ~Contains(Text, NotDisclosed)) =>
         (IsCleanSalaryText(ret[1]) /\ IsCleanedFrom(Text, ret[1]))
    /\ ret[1] # NotDisclosed

\* 'Not disclosed' has become 'Negotiable'
C18_Witness ==
  /\ pc = "clean_salary"
  /\ Text = NotDisclosed
  /\ ret # <<>>
  /\ ret[1] = Negotiable

\* the index of the dash of a located range "A - B"
DashIndex(s) == CHOOSE i \in 1..Len(s) : s[i] = "-"

\* the integer value of an amount written with thousands separators
AmountValue(s) == ParseInt(RemoveChars(strip(s), {","}))

\* the bounds are the values of the two amounts of the located range s
BoundsOfRange(r, s, i) ==
  /\ r.salary_min = Float(AmountValue(SubSeq(s, 1, i - 1)))
  /\ r.salary_max = Float(AmountValue(SubSeq(s, i + 1, Len(s))))

\* C19: for a record whose located salary is a range "A - B", salary_min is
\* the integer value of A and salary_max the integer value of B.
C19_RangeBoundsParsed ==
  \A k \in Rows :
    Contains(df[k].salary_extracted, <<"-">>) =>
      BoundsOfRange(df[k], df[k].salary_extracted, DashIndex(df[k].salary_extracted))

\* C20: when salary_cleaned is a single figure (digits and no dash),
\* salary_min, salary_max and salary_average are present and equal.
C20_SingleFigureBoundsEqual ==
  \A k \in Rows :
    (HasDigit(df[k].salary_cleaned) /\ ~Contains(df[k].salary_cleaned, <<"-">>)) =>
      /\ ~df[k].salary_min.nan
      /\ df[k].salary_max = df[k].salary_min
      /\ df[k].salary_average = df[k].salary_min

\* the record of "Flacq MUR 45,000 ...": salary_cleaned is "45000"
C20_Witness ==
  /\ pc = "loaded"
  /\ \E k \in Rows :
       /\ df[k].description = DescSingleAmount
       /\ df[k].salary_cleaned = <<"4", "5", "0", "0", "0">>
       /\ ~df[k].salary_min.nan

\* the configured region names occurring in s, letter case ignored, by
\* their index in the configured list
RegionsIn(s) ==
  { k \in 1..Len(locations) : \E i \in 1..Len(s) : OccursAt(s, locations[k], i, TRUE) }

\* the index in s of the first occurrence of the k-th region name
RegionAt(s, k) == Least({ i \in 1..Len(s) : OccursAt(s, locations[k], i, TRUE) })

\* C21: extract_location returns one of the eleven configured region names
\* or 'Not specified'; letter case is ignored; of several region names in
\* the description the one first in the configured list is returned,
\* wherever the names stand in the text.
C21_LocationFirstInList ==
  (pc = "extract_location" /\ ret # <<>>) =>
    /\ Len(locations) = 11
    /\ ret[1] \in { locations[k] : k \in 1..Len(locations) } \cup {NotSpecified}
    /\ ret[1] = IF isna(Text) \/ RegionsIn(Text) = {} THEN NotSpecified
                ELSE locations[Least(RegionsIn(Text))]

\* a description naming flacq in small letters before MOKA in capitals has
\* returned Moka
C21_Witness ==
  /\ pc = "extract_location" /\ ret = << <<"M", "o", "k", "a">> >>
  /\ RegionsIn(Text) = {5, 6}
  /\ RegionAt(Text, 6) < RegionAt(Text, 5)
  /\ \E i \in 1..Len(Text) : OccursAt(Text, <<"f", "l", "a", "c", "q">>, i, FALSE)
  /\ \E i \in 1..Len(Text) : OccursAt(Text, <<"M", "O", "K", "A">>, i, FALSE)

\* lit occurs in s, letter case ignored
Mentions(s, lit) == \E i \in 1..Len(s) : OccursAt(s, lit, i, TRUE)

\* the keyword families of the job type in their order, and their labels
JobTypeFamilies ==
  << [label |-> Permanent, keywords |-> { <<"P", "E", "R", "M", "A", "N", "E", "N", "T">>, <<"C", "D", "I">> }],
     [label |-> ContractTemporary, keywords |-> { <<"C", "O", "N", "T", "R", "A", "C", "T">>, <<"T", "E", "M", "P", "O", "R", "A", "R", "Y">> }],
     [label |-> Trainee, keywords |-> { <<"T", "R", "A", "I", "N", "E", "E">>, <<"I", "N", "T", "E", "R", "N", "S", "H", "I", "P">> }],
     [label |-> PartTime, keywords |-> { <<"P", "A", "R", "T", "-", "T", "I", "M", "E">> }] >>

\* the families with a keyword in s
FamiliesIn(s) ==
  { f \in 1..Len(JobTypeFamilies) : \E kw \in JobTypeFamilies[f].keywords : Mentions(s, kw) }

\* C22: extract_job_type tests its keyword families, letter case ignored,
\* in the order Permanent/CDI, Contract/Temporary, Trainee/Internship,
\* Part-time and returns the label of the first family with a keyword in
\* the description, keywords of later families notwithstanding; with no
\* keyword it returns 'Not specified'.
C22_JobTypeFirstFamily ==
  (pc = "extract_job_type" /\ ret # <<>>) =>
    ret[1] = IF isna(Text) \/ FamiliesIn(Text) = {} THEN NotSpecified
             ELSE JobTypeFamilies[Least(FamiliesIn(Text))].label

\* a description with part-time in small letters before CDI has returned
\* Permanent
C22_Witness ==
  /\ pc = "extract_job_type" /\ ret = <<Permanent>>
  /\ FamiliesIn(Text) = {1, 4}
  /\ Text = <<"p", "a", "r", "t", "-", "t", "i", "m", "e", ",", " ", "C", "D", "I">>

\* the patterns of extract_experience in the order "N years", "N ans",
\* "minimum N years", "at least N years"
ExperiencePatternOrder ==
  << [prefix |-> << >>, plus |-> TRUE, unit |-> <<"y", "e", "a", "r">>],
     [prefix |-> << >>, plus |-> FALSE, unit |-> <<"a", "n">>],
     [prefix |-> << <<"m", "i", "n", "i", "m", "u", "m">> >>, plus |-> FALSE, unit |-> <<"y", "e", "a", "r">>],
     [prefix |-> << <<"a", "t">>, <<"l", "e", "a", "s", "t">> >>, plus |-> FALSE, unit |-> <<"y", "e", "a", "r">>] >>

\* re.search of one pattern in s
ExperienceSearch(s, pat) == Search(s, LAMBDA m : ExperiencePattern(s, pat, m))

\* the patterns of the order that match somewhere in s
MatchingExperiencePatterns(s) ==
  { k \in 1..Len(ExperiencePatternOrder) : ExperienceSearch(s, ExperiencePatternOrder[k]).found }

\* the band of the number captured by the first match of pattern k in s
BandOfPattern(s, k) == ExperienceBand(ParseInt(ExperienceSearch(s, ExperiencePatternOrder[k]).g[1]))

\* C23: extract_experience tries "N years", "N ans", "minimum N years",
\* "at least N years" in this order and bands the number of the first
\* pattern that matches anywhere in the description, wherever the matches
\* stand in the text; "N ans" is used only when no "N years" matches.
C23_ExperiencePatternPriority ==
  (pc = "extract_experience" /\ ret # <<>>) =>
    LET matching == MatchingExperiencePatterns(Text)
    IN  /\ ret[1] = IF isna(Text) \/ matching = {} THEN NotSpecified
                    ELSE BandOfPattern(Text, Least(matching))
        /\ (~isna(Text) /\ {1, 2} \subseteq matching) => ret[1] = BandOfPattern(Text, 1)

\* "3 ans, 8 years" has been banded from 8
C23_Witness ==
  /\ pc = "extract_experience" /\ ret = <<SeniorLevel>>
  /\ Text = <<"3", " ", "a", "n", "s", ",", " ", "8", " ", "y", "e", "a", "r", "s">>
  /\ {1, 2} \subseteq MatchingExperiencePatterns(Text)

\* the indexes in s at which a run of digits starts
DigitRunStarts(s) == { i \in 1..Len(s) : IsDigit(s[i]) /\ (i = 1 \/ ~IsDigit(s[i - 1])) }

\* the index after the run of digits that starts at i
AfterDigitRun(s, i) == Least({ j \in (i + 1)..(Len(s) + 1) : j > Len(s) \/ ~IsDigit(s[j]) })

\* from index p of s come white space, if any, and then the unit
UnitFrom(s, p, unit) ==
  \E q \in p..Len(s) : (\A x \in p..(q - 1) : IsSpace(s[x])) /\ OccursAt(s, unit, q, TRUE)

\* the runs of digits of s that "N years" matches: digits, + if any, white
\* space if any, year
YearsRuns(s) ==
  { i \in DigitRunStarts(s) :
      LET j == AfterDigitRun(s, i)
      IN  UnitFrom(s, j, <<"y", "e", "a", "r">>) \/ (j <= Len(s) /\ s[j] = "+" /\ UnitFrom(s, j + 1, <<"y", "e", "a", "r">>)) }

\* the runs of digits of s that "N ans" matches: digits, white space if
\* any, an
AnsRuns(s) == { i \in DigitRunStarts(s) : UnitFrom(s, AfterDigitRun(s, i), <<"a", "n">>) }

\* the band of the number written in the first of the runs
BandOfFirstRun(s, runs) == ExperienceBand(ParseInt(SubSeq(s, Least(runs), AfterDigitRun(s, Least(runs)) - 1)))

\* C28: "minimum N years" and "at least N years" never decide the result of
\* extract_experience: a description they match is matched by "N years"
\* too, and the band is that of the leftmost "N years" match, or failing
\* that of the leftmost "N ans" match, as it is without the two patterns.
C28_PrefixedPatternsNeverDecide ==
  (pc = "extract_experience" /\ ret # <<>> /\ ~isna(Text)) =>
    /\ \A k \in {3, 4} : ExperienceSearch(Text, ExperiencePatternOrder[k]).found => YearsRuns(Text) # {}
    /\ ret[1] = IF YearsRuns(Text) # {} THEN BandOfFirstRun(Text, YearsRuns(Text))
                ELSE IF AnsRuns(Text) # {} THEN BandOfFirstRun(Text, AnsRuns(Text))
                ELSE NotSpecified

\* "3 years, minimum 8 years", which "minimum N years" matches at 8, has
\* been banded from 3
C28_Witness ==
  /\ pc = "extract_experience" /\ ret = <<MidLevel>>
  /\ Text = <<"3", " ", "y", "e", "a", "r", "s", ",", " ", "m", "i", "n", "i", "m", "u", "m", " ", "8", " ", "y", "e", "a", "r", "s">>
  /\ ExperienceSearch(Text, ExperiencePatternOrder[3]).g = << <<"8">> >>

\* the labels of the phrases of the vocabulary that occur in s, letter case
\* ignored
MentionedLabels(s) == { title(skills_list[k]) : k \in { j \in 1..Len(skills_list) : Mentions(s, skills_list[j]) } }

\* C24: extract_skills returns exactly the title-cased form of every phrase
\* of the vocabulary that occurs in the description, letter case ignored:
\* none is omitted, nothing else is returned, no label is returned twice and
\* the number of labels is not capped.
C24_SkillsExactlyThoseMentioned ==
  (pc = "extract_skills" /\ ret # <<>>) =>
    /\ { ret[1][k] : k \in 1..Len(ret[1]) } = IF isna(Text) THEN {} ELSE MentionedLabels(Text)
    /\ \A j, k \in 1..Len(ret[1]) : ret[1][j] = ret[1][k] => j = k

\* every phrase of the vocabulary followed by MICROSOFT OFFICE in capitals
\* has returned the thirty-one labels, Microsoft Office, Hr and It among
\* them, each once
C24_Witness ==
  /\ pc = "extract_skills" /\ ret # <<>>
  /\ arg = <<EverySkillFrom(1), <<",", " ">>, upper(<<"m", "i", "c", "r", "o", "s", "o", "f", "t", " ", "o", "f", "f", "i", "c", "e">>)>>
  /\ Len(ret[1]) = 31 /\ Cardinality({ ret[1][k] : k \in 1..Len(ret[1]) }) = 31
  /\ ret[1][4] = <<"M", "i", "c", "r", "o", "s", "o", "f", "t", " ", "O", "f", "f", "i", "c", "e">>
  /\ ret[1][14] = <<"H", "r">> /\ ret[1][21] = <<"I", "t">>

\* x is absent or a whole number from lo to hi
AbsentOrWithin(x, lo, hi) == x.nan \/ (x.halves % 2 = 0 /\ 2 * lo <= x.halves /\ x.halves <= 2 * hi)

\* the description has an amount of five digits
HasLargeAmount(description) ==
  \E i \in 1..Len(description) : OccursAt(description, <<"1", "5", ",", "0", "0", "0">>, i, FALSE)

HowMany(conditions) == Cardinality({ k \in 1..Len(conditions) : conditions[k] })

\* the pages whose sub-table has the record r
PagesOf(r) == { p \in Pages : \E k \in 1..Len(PageRows(df, p)) : PageRows(df, p)[k] = r }

DefaultSalaryRange(table) ==
  IF salary_data(table) = <<>> THEN <<0, 0>> ELSE <<min_salary(table), max_salary(table)>>

\* C27: with every selector at 'All' and the salary slider left at its
\* default, the whole range, create_interactive_filters returns every row of
\* the sub-table it is given, whatever the sub-table, one whose largest
\* average salary is fractional included.
C27_DefaultFiltersKeepEveryRow ==
  pc = "page" =>
    create_interactive_filters(page_df, All, All, All, DefaultSalaryRange(page_df)) = page_df

\* a is an amount as the patterns write it: one or two digits, then groups
\* of a comma and three digits
IsPatternAmount(a) ==
  \E d \in 1..2 :
    /\ Len(a) >= d /\ (Len(a) - d) % 4 = 0
    /\ \A i \in 1..Len(a) : IF i > d /\ (i - d) % 4 = 1 THEN a[i] = "," ELSE IsDigit(a[i])

\* the number an amount stands for
PatternAmountValue(a) == ParseInt(RemoveChars(a, {","}))

SingleAmountPatterns == { k \in 1..Len(salary_patterns) : ~salary_patterns[k].range }

\* the single-amount patterns whose leftmost match in a description is of
\* at least 1000
PassingOnLeftmost(desc) ==
  { k \in SingleAmountPatterns :
      /\ CurrencySearch(desc, k).found
      /\ PatternAmountValue(CurrencySearch(desc, k).g[1]) >= 1000 }

\* pattern k matches in the description from index j on, with an amount of
\* at least 1000
PassesFrom(desc, k, j) ==
  /\ CurrencySearch(SubSeq(desc, j, Len(desc)), k).found
  /\ PatternAmountValue(CurrencySearch(SubSeq(desc, j, Len(desc)), k).g[1]) >= 1000

\* C30: a single-amount currency pattern is judged on its leftmost match
\* alone: when that match is below 1000 the pattern is skipped, whatever its
\* later matches, so that with no other pattern matching a description such
\* as "MUR 500 bonus, salary MUR 20,000" resolves to 'Not specified'.
C30_SingleAmountLeftmostOnly ==
  (pc = "extract_salary_from_description" /\ ret # <<>>) =>
    /\ \A k \in 1..Len(salary_patterns) : salary_patterns[k].range => ~CurrencySearch(Text, k).found
    /\ ret[1] = IF PassingOnLeftmost(Text) = {} THEN NotSpecified
                ELSE CurrencySearch(Text, Least(PassingOnLeftmost(Text))).g[1]

\* "MUR 500 bonus, salary MUR 20,000" has resolved to 'Not specified',
\* though the pattern of its leftmost match, which captures 50, matches
\* 20,000 later
C30_Witness ==
  /\ pc = "extract_salary_from_description" /\ ret = <<NotSpecified>>
  /\ Text = <<"M", "U", "R", " ", "5", "0", "0", " ", "b", "o", "n", "u", "s", ",", " ", "s", "a", "l", "a", "r", "y", " ", "M", "U", "R", " ", "2", "0", ",", "0", "0", "0">>
  /\ CurrencySearch(Text, 5).g = << <<"5", "0">> >>
  /\ PassingOnLeftmost(Text) = {}
  /\ \E j \in 1..Len(Text) : PassesFrom(Text, 5, j)

=============================================================================
